---------------------------- MODULE Spec2Model ----------------------------
(***************************************************************************)
(* Model of src/src/media-segment-request.js: the segment request          *)
(* coordinator (mediaSegmentRequest / waitForCompletion), its response     *)
(* handlers, the decryption round trip and the parse dispatcher.           *)
(*                                                                         *)
(* JavaScript runs every callback to completion, so each action below is   *)
(* one whole callback: a transport callback, a progress event, a worker    *)
(* reply, a transmuxer completion, or a call of the abort handle.  The     *)
(* handlers are operators on a record `s' that holds everything a callback *)
(* can read or write; an action applies a handler to the current state     *)
(* (Cur) and commits the result (Commit).  A cancel call that makes the    *)
(* transport invoke the cancelled request's callback synchronously is      *)
(* therefore computed inside the cancelling handler, as the code runs it.  *)
(***************************************************************************)
EXTENDS Integers, Sequences, FiniteSets, TLC

VARIABLES
  pc,            \* "init" before mediaSegmentRequest ran, "running" after
  segment,       \* the segment descriptor, mutated in place by the handlers
  xhrs,          \* the transport's request objects, by request name
  syncAbort,     \* transport behaviour: does abort() call back synchronously
  activeXhrs,    \* mediaSegmentRequest's activeXhrs array
  errors,        \* waitForCompletion's closure variable `errors'
  count,         \* waitForCompletion's closure variable `count'
  decrypter,     \* the decryption worker channel
  transmuxQ,     \* pushes handed to the transmuxer, not yet completed
  classified,    \* log: the arguments and result of the last handleErrors call
  handoffs,      \* log: the paths taken when count reached the total
  dispatched,    \* log: the calls of handleDecryptedBytes
  lastParse,     \* log: the last answer of the fragmented-container parser
  doneCalls,     \* log: the calls of doneFn (the error code, 0 for null)
  emptyFinal,    \* log: a final push completed without timing information
  handleAborted, \* log: the requests in flight at a call of the abort handle
  progressCalls, \* log: number of calls of progressFn
  abortCalls,    \* log: number of calls of the returned abort handle
  segs,          \* several invocations sharing the worker channel, by request id
  repeats        \* log: number of worker replies repeating an answered id

vars == <<pc, segment, xhrs, syncAbort, activeXhrs, errors, count, decrypter,
          transmuxQ, classified, handoffs, dispatched, lastParse,
          doneCalls, emptyFinal, handleAborted, progressCalls, abortCalls,
          segs, repeats>>

----------------------------------------------------------------------------
(* Bounds of the model *)

\* Largest media response body, in bytes.
MaxBody == 2
\* Largest number of progress events of the media request.
MaxProgress == 2
\* Largest number of calls of the abort handle.
MaxAborts == 2
\* Largest number of worker replies that repeat an id already answered.
MaxRepeats == 1
\* Largest byte-range offset and length drawn, besides 500 and 1000.
MaxOffset == 3
MaxLength == 3
\* Largest number of boxes with a declared size in a media body.
MaxBoxes == 2

----------------------------------------------------------------------------
(* Program constants *)

FAILURE == 2
TIMEOUT == -101
ABORTED == -102
\* the key size handleKeyResponse requires
KeyLength == 16

Reqs == {"key", "init", "media"}

Min(a, b) == IF a < b THEN a ELSE b

\* JavaScript values a number-typed field can hold
Num(n) == [kind |-> "number", v |-> n]
Undefined == [kind |-> "undefined", v |-> 0]
NaN == [kind |-> "NaN", v |-> 0]
\* x || 0 : undefined, NaN and 0 are falsy
OrZero(x) == IF x.kind = "number" THEN x.v ELSE 0
\* x += n
PlusEq(x, n) == IF x.kind = "number" THEN Num(x.v + n) ELSE NaN

\* a byte buffer cut from the media response body: the bytes [from, to)
Bytes(a, b) == [set |-> TRUE, from |-> a, to |-> b]
NoBytes == [set |-> FALSE, from |-> 0, to |-> 0]
ByteLength(b) == b.to - b.from

\* the error argument of a callback, or of finishProcessingFn: null
NoError == [code |-> 0, xhr |-> "none"]

\* request.response of a request that did not succeed
NoResponse == [type |-> "none", len |-> 0]

\* DataView.getUint32(offset) over the bytes `view': big-endian
getUint32(view, offset) ==
  view[offset + 1] * 16777216 + view[offset + 2] * 65536
    + view[offset + 3] * 256 + view[offset + 4]


----------------------------------------------------------------------------
(* The state a callback works on *)

Cur == [segment |-> segment, xhrs |-> xhrs, activeXhrs |-> activeXhrs,
        errors |-> errors, count |-> count, decrypter |-> decrypter,
        transmuxQ |-> transmuxQ, classified |-> classified,
        handoffs |-> handoffs, dispatched |-> dispatched,
        lastParse |-> lastParse, doneCalls |-> doneCalls]

Commit(s) ==
  /\ segment' = s.segment
  /\ xhrs' = s.xhrs
  /\ activeXhrs' = s.activeXhrs
  /\ errors' = s.errors
  /\ count' = s.count
  /\ decrypter' = s.decrypter
  /\ transmuxQ' = s.transmuxQ
  /\ classified' = s.classified
  /\ handoffs' = s.handoffs
  /\ dispatched' = s.dispatched
  /\ lastParse' = s.lastParse
  /\ doneCalls' = s.doneCalls

\* the correlation identifier of the segment (segment.requestId)
RequestId == "segment"

\* what the fragmented-container parser answers when it is not consulted
NoParse == [used |-> 0, out |-> FALSE]

----------------------------------------------------------------------------
(* Error classification *)

\* handleErrors with the aborted flag tested before the timed-out flag
handleErrors_AbortedFirst(error, request) ==
  IF request.aborted THEN [code |-> ABORTED, xhr |-> request.uri]
  ELSE IF request.timedout THEN [code |-> TIMEOUT, xhr |-> request.uri]
  ELSE IF error THEN [code |-> FAILURE, xhr |-> request.uri]
  ELSE NoError

\* handleErrors without the test of the aborted flag
handleErrors_IgnoreAborted(error, request) ==
  IF request.timedout THEN [code |-> TIMEOUT, xhr |-> request.uri]
  ELSE IF error THEN [code |-> FAILURE, xhr |-> request.uri]
  ELSE NoError

\* handleErrors(error, request): `error' is whether the argument is non-null
handleErrors(error, request) ==
  IF request.timedout THEN [code |-> TIMEOUT, xhr |-> request.uri]
  ELSE IF request.aborted THEN [code |-> ABORTED, xhr |-> request.uri]
  ELSE IF error THEN [code |-> FAILURE, xhr |-> request.uri]
  ELSE NoError

\* errors.reduce((prev, err) => err.code > prev.code ? err : prev), which
\* starts from the first element
RECURSIVE reduceErrors(_, _, _)
reduceErrors(errs, i, prev) ==
  IF i > Len(errs) THEN prev
  ELSE reduceErrors(errs, i + 1, IF errs[i].code > prev.code THEN errs[i] ELSE prev)

RECURSIVE reduceErrorsGeq(_, _, _)
reduceErrorsGeq(errs, i, prev) ==
  IF i > Len(errs) THEN prev
  ELSE reduceErrorsGeq(errs, i + 1, IF errs[i].code >= prev.code THEN errs[i] ELSE prev)

\* getMostImportantError comparing with >= : of equal codes the last wins
getMostImportantError_LastWins(errs) == reduceErrorsGeq(errs, 2, errs[1])

\* getMostImportantError returning the first error accumulated
getMostImportantError_First(errs) == errs[1]

getMostImportantError(errs) == reduceErrors(errs, 2, errs[1])

----------------------------------------------------------------------------
(* Decryption and parse dispatch *)

\* transmuxAndNotify not handing doneFn on to the completion callback
transmuxAndNotify_NoDone(s, bytes, isPartial, hasDoneFn) ==
  [s EXCEPT !.transmuxQ = Append(@, [isPartial |-> isPartial, doneFn |-> FALSE])]

\* transmux({..., isPartial, onData, onTrackInfo, onDone}): the push is
\* queued; its completion arrives later (action TransmuxDone)
transmuxAndNotify(s, bytes, isPartial, hasDoneFn) ==
  [s EXCEPT !.transmuxQ = Append(@, [isPartial |-> isPartial, doneFn |-> hasDoneFn])]

\* boxParsers.inspectMp4({data, isEndOfSegment, boxes}) answers p: the count
\* of bytes it used, never more than it was given, whether it produced
\* output, and a new parser state (the states are numbered)
inspectMp4(data, isEndOfSegment, boxes, p) ==
  [bytes |-> p.out,
   boxes |-> boxes + 1,
   numUsedBytes |-> Min(p.used, ByteLength(data))]

parseMp4AndNotify_WholeBuffer(s, bytes, isPartial, p) ==
  LET result == inspectMp4(bytes, ~isPartial, s.segment.boxes, p)
  IN [s |-> [s EXCEPT !.segment.boxes = result.boxes,
                      !.lastParse = [called |-> TRUE,
                                     isEndOfSegment |-> ~isPartial,
                                     priorBoxes |-> s.segment.boxes,
                                     out |-> result.bytes,
                                     boxes |-> result.boxes,
                                     numUsedBytes |-> result.numUsedBytes,
                                     dataFn |-> result.bytes]],
      n |-> ByteLength(bytes)]

\* parseMp4AndNotify({segment, bytes, isPartial, dataFn, doneFn}): dataFn is
\* called if result.bytes is there and not empty, result.boxes is stored on
\* the segment and result.numUsedBytes is returned; the call of the parser
\* and of dataFn is logged in `lastParse'
parseMp4AndNotify(s, bytes, isPartial, p) ==
  LET result == inspectMp4(bytes, ~isPartial, s.segment.boxes, p)
  IN [s |-> [s EXCEPT !.segment.boxes = result.boxes,
                      !.lastParse = [called |-> TRUE,
                                     isEndOfSegment |-> ~isPartial,
                                     priorBoxes |-> s.segment.boxes,
                                     out |-> result.bytes,
                                     boxes |-> result.boxes,
                                     numUsedBytes |-> result.numUsedBytes,
                                     dataFn |-> result.bytes]],
      n |-> result.numUsedBytes]

\* handleDecryptedBytes({segment, bytes, isPartial, dataFn, doneFn}) returns
\* the number of bytes handled; every call is logged in `dispatched'
handleDecryptedBytes(s, bytes, isPartial, hasDoneFn, p) ==
  LET r == IF s.segment.map
           THEN parseMp4AndNotify(s, bytes, isPartial, p)
           ELSE [s |-> transmuxAndNotify(s, bytes, isPartial, hasDoneFn),
                 n |-> ByteLength(bytes)]
      entry == [isPartial |-> isPartial, from |-> bytes.from, to |-> bytes.to,
                route |-> IF s.segment.map THEN "mp4" ELSE "ts",
                used |-> r.n]
  IN [s |-> [r.s EXCEPT !.dispatched = Append(@, entry)], n |-> r.n]

\* decryptSegment: register the reply listener, post the message and
\* transfer the encrypted buffer and the key buffer to the worker
decryptSegment(s) ==
  [s EXCEPT !.decrypter.listeners = @ \cup {s.segment.requestId},
            !.decrypter.inbox = @ \cup {s.segment.requestId},
            !.segment.transferred = TRUE]

\* decryptionHandler of decryptSegment without the test of event.data.source
decryptionHandler_AnySource(s, event, p) ==
  LET s1 == [s EXCEPT !.decrypter.listeners = @ \ {s.segment.requestId},
                      !.segment.bytes = event.decrypted,
                      !.segment.decryptedFor = event.source]
  IN handleDecryptedBytes(s1, s1.segment.bytes, FALSE, TRUE, p).s

\* decryptionHandler of decryptSegment leaving its listener registered
decryptionHandler_KeepListener(s, event, p) ==
  IF event.source = s.segment.requestId
  THEN LET s1 == [s EXCEPT !.segment.bytes = event.decrypted,
                           !.segment.decryptedFor = event.source]
       IN handleDecryptedBytes(s1, s1.segment.bytes, FALSE, TRUE, p).s
  ELSE s

\* decryptionHandler dropping the reply if a request of the segment was
\* cancelled in the meantime
decryptionHandler_DropIfAborted(s, event, p) ==
  IF event.source = s.segment.requestId
  THEN LET s1 == [s EXCEPT !.decrypter.listeners = @ \ {s.segment.requestId},
                           !.segment.bytes = event.decrypted,
                           !.segment.decryptedFor = event.source]
       IN IF \E r \in Reqs : s.xhrs[r].aborted
          THEN s1
          ELSE handleDecryptedBytes(s1, s1.segment.bytes, FALSE, TRUE, p).s
  ELSE s

\* decryptionHandler(event) of decryptSegment; event.data is
\* [source, decrypted].  segment.decryptedFor logs the source of the reply
\* whose payload was installed
decryptionHandler(s, event, p) ==
  IF event.source = s.segment.requestId
  THEN LET s1 == [s EXCEPT !.decrypter.listeners = @ \ {s.segment.requestId},
                           !.segment.bytes = event.decrypted,
                           !.segment.decryptedFor = event.source]
       IN handleDecryptedBytes(s1, s1.segment.bytes, FALSE, TRUE, p).s
  ELSE s

RECURSIVE reportEach(_, _)
reportEach(s, i) ==
  IF i > Len(s.errors) THEN s
  ELSE reportEach([s EXCEPT !.doneCalls = Append(@, s.errors[i])], i + 1)

\* the hand-off calling doneFn for every accumulated error
handOff_ReportEach(s, p) ==
  LET s3 == [s EXCEPT !.segment.endOfAllRequests = TRUE]
  IN IF Len(s3.errors) > 0
     THEN reportEach([s3 EXCEPT !.handoffs = Append(@, "error")], 1)
     ELSE IF s3.segment.encryptedBytes.set
     THEN decryptSegment([s3 EXCEPT !.handoffs = Append(@, "decrypt")])
     ELSE handleDecryptedBytes([s3 EXCEPT !.handoffs = Append(@, "parse")],
                               s3.segment.bytes, FALSE, TRUE, p).s

\* the hand-off without the `return' of the error branch: it goes on to
\* decrypt or parse after reporting the error
handOff_NoReturn(s, p) ==
  LET s3 == [s EXCEPT !.segment.endOfAllRequests = TRUE]
      s4 == IF Len(s3.errors) > 0
            THEN [s3 EXCEPT !.handoffs = Append(@, "error"),
                            !.doneCalls = Append(@, getMostImportantError(s3.errors))]
            ELSE s3
  IN IF s4.segment.encryptedBytes.set
     THEN decryptSegment([s4 EXCEPT !.handoffs = Append(@, "decrypt")])
     ELSE handleDecryptedBytes([s4 EXCEPT !.handoffs = Append(@, "parse")],
                               s4.segment.bytes, FALSE, TRUE, p).s

\* the hand-off clearing the descriptor's partial state on the error path
handOff_ResetOnError(s, p) ==
  LET s3 == [s EXCEPT !.segment.endOfAllRequests = TRUE]
  IN IF Len(s3.errors) > 0
     THEN [s3 EXCEPT !.handoffs = Append(@, "error"),
                     !.doneCalls = Append(@, getMostImportantError(s3.errors)),
                     !.segment.lastReachedChar = Num(0),
                     !.segment.bytes = NoBytes,
                     !.segment.encryptedBytes = NoBytes,
                     !.segment.boxes = 0,
                     !.segment.stats = [set |-> FALSE, bytesReceived |-> 0,
                                        firstBytesReceivedAt |-> FALSE]]
     ELSE IF s3.segment.encryptedBytes.set
     THEN decryptSegment([s3 EXCEPT !.handoffs = Append(@, "decrypt")])
     ELSE handleDecryptedBytes([s3 EXCEPT !.handoffs = Append(@, "parse")],
                               s3.segment.bytes, FALSE, TRUE, p).s

\* the hand-off testing for an encrypted buffer before it looks at the
\* accumulated errors
handOff_DecryptFirst(s, p) ==
  LET s3 == [s EXCEPT !.segment.endOfAllRequests = TRUE]
  IN IF s3.segment.encryptedBytes.set
     THEN decryptSegment([s3 EXCEPT !.handoffs = Append(@, "decrypt")])
     ELSE IF Len(s3.errors) > 0
     THEN [s3 EXCEPT !.handoffs = Append(@, "error"),
                     !.doneCalls = Append(@, getMostImportantError(s3.errors))]
     ELSE handleDecryptedBytes([s3 EXCEPT !.handoffs = Append(@, "parse")],
                               s3.segment.bytes, FALSE, TRUE, p).s

\* the body of `if (count === activeXhrs.length)' in waitForCompletion: the
\* hand-off, logged in `handoffs'
handOff(s, p) ==
  LET s3 == [s EXCEPT !.segment.endOfAllRequests = TRUE]
  IN IF Len(s3.errors) > 0
     THEN [s3 EXCEPT !.handoffs = Append(@, "error"),
                     !.doneCalls = Append(@, getMostImportantError(s3.errors))]
     ELSE IF s3.segment.encryptedBytes.set
     THEN decryptSegment([s3 EXCEPT !.handoffs = Append(@, "decrypt")])
     ELSE handleDecryptedBytes([s3 EXCEPT !.handoffs = Append(@, "parse")],
                               s3.segment.bytes, FALSE, TRUE, p).s

----------------------------------------------------------------------------
(* The completion tracker and the response handlers.  abort() of a request *)
(* in flight may run that request's callback synchronously, which calls    *)
(* finishProcessingFn again: the operators are mutually recursive.         *)

RECURSIVE finishProcessingFn(_, _, _)
RECURSIVE responseCallback(_, _, _, _, _)
RECURSIVE abortFrom(_, _, _)

\* xhr.abort() of the request wrapper: sets request.aborted, cancels the
\* request; safe to call again and after completion.  Two logs count the
\* calls as none, one or several: abortCount every call the request
\* received, abortsInFlight those it received while it was in flight.
xhrAbort(s, r, p) ==
  LET s1 == [s EXCEPT !.xhrs[r].aborted = TRUE,
                      !.xhrs[r].abortCount = IF @ < 2 THEN @ + 1 ELSE @,
                      !.xhrs[r].abortsInFlight =
                         IF s.xhrs[r].state = "inflight" /\ @ < 2 THEN @ + 1 ELSE @]
  IN IF s.xhrs[r].state = "inflight" /\ syncAbort
     THEN responseCallback([s1 EXCEPT !.xhrs[r].state = "done",
                                      !.xhrs[r].result = "error"], r, TRUE,
                           [type |-> "none", len |-> 0], p)
     ELSE s1

\* activeXhrs.forEach((xhr) => xhr.abort()), from index i on
abortFrom(s, i, p) ==
  IF i > Len(s.activeXhrs) THEN s
  ELSE abortFrom(xhrAbort(s, s.activeXhrs[i], p), i + 1, p)

\* abortAll recording an Aborted error of its own at every call
abortAll_Recording(s, p) ==
  [abortFrom(s, 1, p) EXCEPT !.errors = Append(@, [code |-> ABORTED, xhr |-> "media"])]

\* abortAll cancelling the first tracked request only
abortAll_FirstOnly(s, p) ==
  IF Len(s.activeXhrs) = 0 THEN s ELSE xhrAbort(s, s.activeXhrs[1], p)

abortAll(s, p) == abortFrom(s, 1, p)

\* the tracker handing off as soon as an error is seen, without waiting for
\* the other requests
finishProcessingFn_EagerError(s, error, p) ==
  LET s1 == IF error.code # 0
            THEN [abortAll(s, p) EXCEPT !.errors = Append(@, error)]
            ELSE s
      s2 == [s1 EXCEPT !.count = @ + 1]
  IN IF s2.count = Len(s2.activeXhrs) \/ error.code # 0 THEN handOff(s2, p) ELSE s2

\* the tracker handing off at the first completion instead of the last
finishProcessingFn_FirstCompletion(s, error, p) ==
  LET s1 == IF error.code # 0
            THEN [abortAll(s, p) EXCEPT !.errors = Append(@, error)]
            ELSE s
      s2 == [s1 EXCEPT !.count = @ + 1]
  IN IF s2.count = 1 THEN handOff(s2, p) ELSE s2

\* the tracker recording an error without cancelling the other requests
finishProcessingFn_NoAbort(s, error, p) ==
  LET s1 == IF error.code # 0 THEN [s EXCEPT !.errors = Append(@, error)] ELSE s
      s2 == [s1 EXCEPT !.count = @ + 1]
  IN IF s2.count = Len(s2.activeXhrs) THEN handOff(s2, p) ELSE s2

\* the callback waitForCompletion returns
finishProcessingFn(s, error, p) ==
  LET s1 == IF error.code # 0
            THEN [abortAll(s, p) EXCEPT !.errors = Append(@, error)]
            ELSE s
      s2 == [s1 EXCEPT !.count = @ + 1]
  IN IF s2.count = Len(s2.activeXhrs) THEN handOff(s2, p) ELSE s2

\* the call of handleErrors at the head of each response handler, logged
classify(s, error, r) ==
  [s EXCEPT !.classified =
     [called |-> TRUE, error |-> error, timedout |-> s.xhrs[r].timedout,
      aborted |-> s.xhrs[r].aborted, code |-> handleErrors(error, s.xhrs[r]).code]]

\* response.byteLength: a number for an ArrayBuffer, undefined for the
\* string of a responseType 'text' request
responseByteLength(response) ==
  IF response.type = "arraybuffer" THEN Num(response.len) ELSE Undefined

\* handleKeyResponse rejecting only a response shorter than 16 bytes
handleKeyResponse_AtLeast16(s, error, response, p) ==
  LET errorObj == handleErrors(error, s.xhrs["key"])
      s1 == classify(s, error, "key")
  IN IF errorObj.code # 0 THEN finishProcessingFn(s1, errorObj, p)
     ELSE IF response.len < KeyLength
     THEN finishProcessingFn(s1, [code |-> FAILURE, xhr |-> "key"], p)
     ELSE finishProcessingFn(
            [s1 EXCEPT !.segment.keyBytes = TRUE,
                       !.segment.keyWords =
                          <<getUint32(response.body, 0), getUint32(response.body, 4),
                            getUint32(response.body, 8), getUint32(response.body, 12)>>],
            NoError, p)

\* segment.key.bytes is modelled by two fields: keyBytes, whether it is
\* set, and keyWords, the contents of the Uint32Array
handleKeyResponse(s, error, response, p) ==
  LET errorObj == handleErrors(error, s.xhrs["key"])
      s1 == classify(s, error, "key")
  IN IF errorObj.code # 0 THEN finishProcessingFn(s1, errorObj, p)
     ELSE IF responseByteLength(response) # Num(KeyLength)
     THEN finishProcessingFn(s1, [code |-> FAILURE, xhr |-> "key"], p)
     ELSE finishProcessingFn(
            [s1 EXCEPT !.segment.keyBytes = TRUE,
                       !.segment.keyWords =
                          <<getUint32(response.body, 0), getUint32(response.body, 4),
                            getUint32(response.body, 8), getUint32(response.body, 12)>>],
            NoError, p)

\* handleInitSegmentResponse without the test for empty content
handleInitSegmentResponse_StoreEmpty(s, error, response, p) ==
  LET errorObj == handleErrors(error, s.xhrs["init"])
      s1 == classify(s, error, "init")
  IN IF errorObj.code # 0 THEN finishProcessingFn(s1, errorObj, p)
     ELSE finishProcessingFn([s1 EXCEPT !.segment.mapBytes = TRUE,
                                        !.segment.mapLen = response.len], NoError, p)

\* segment.map.bytes is modelled by two fields: mapBytes, whether it is
\* set, and mapLen, the length of the Uint8Array
handleInitSegmentResponse(s, error, response, p) ==
  LET errorObj == handleErrors(error, s.xhrs["init"])
      s1 == classify(s, error, "init")
  IN IF errorObj.code # 0 THEN finishProcessingFn(s1, errorObj, p)
     ELSE IF responseByteLength(response) = Num(0)
     THEN finishProcessingFn(s1, [code |-> FAILURE, xhr |-> "init"], p)
     ELSE finishProcessingFn([s1 EXCEPT !.segment.mapBytes = TRUE,
                                        !.segment.mapLen = response.len], NoError, p)

\* getRequestStats(request): a fresh record of the three transport figures
getRequestStats(response) ==
  [set |-> TRUE, bytesReceived |-> response.len, firstBytesReceivedAt |-> FALSE]

\* handleSegmentResponse storing the body as the raw buffer, key or not
handleSegmentResponse_AlwaysRaw(s, error, response, p) ==
  LET errorObj == handleErrors(error, s.xhrs["media"])
      s1 == classify(s, error, "media")
      start == Min(OrZero(s.segment.lastReachedChar), response.len)
      newBytes == Bytes(start, response.len)
  IN IF errorObj.code # 0 THEN finishProcessingFn(s1, errorObj, p)
     ELSE IF responseByteLength(response) = Num(0)
     THEN finishProcessingFn(s1, [code |-> FAILURE, xhr |-> "media"], p)
     ELSE finishProcessingFn([s1 EXCEPT !.segment.stats = getRequestStats(response),
                                        !.segment.bytes = newBytes], NoError, p)

\* handleSegmentResponse storing the whole body, whatever the cursor
handleSegmentResponse_WholeBody(s, error, response, p) ==
  LET errorObj == handleErrors(error, s.xhrs["media"])
      s1 == classify(s, error, "media")
      newBytes == Bytes(0, response.len)
  IN IF errorObj.code # 0 THEN finishProcessingFn(s1, errorObj, p)
     ELSE IF responseByteLength(response) = Num(0)
     THEN finishProcessingFn(s1, [code |-> FAILURE, xhr |-> "media"], p)
     ELSE LET s2 == [s1 EXCEPT !.segment.stats = getRequestStats(response)]
              s3 == IF s2.segment.key
                    THEN [s2 EXCEPT !.segment.encryptedBytes = newBytes]
                    ELSE [s2 EXCEPT !.segment.bytes = newBytes]
          IN finishProcessingFn(s3, NoError, p)

handleSegmentResponse(s, error, response, p) ==
  LET errorObj == handleErrors(error, s.xhrs["media"])
      s1 == classify(s, error, "media")
      start == Min(OrZero(s.segment.lastReachedChar), response.len)
      newBytes == Bytes(start, response.len)
  IN IF errorObj.code # 0 THEN finishProcessingFn(s1, errorObj, p)
     ELSE IF responseByteLength(response) = Num(0)
     THEN finishProcessingFn(s1, [code |-> FAILURE, xhr |-> "media"], p)
     ELSE LET s2 == [s1 EXCEPT !.segment.stats = getRequestStats(response)]
              s3 == IF s2.segment.key
                    THEN [s2 EXCEPT !.segment.encryptedBytes = newBytes]
                    ELSE [s2 EXCEPT !.segment.bytes = newBytes]
          IN finishProcessingFn(s3, NoError, p)

\* the callback the transport invokes for request r
responseCallback(s, r, error, response, p) ==
  CASE r = "key" -> handleKeyResponse(s, error, response, p)
    [] r = "init" -> handleInitSegmentResponse(s, error, response, p)
    [] r = "media" -> handleSegmentResponse(s, error, response, p)

\* getProgressStats merged into segment.stats by videojs.mergeOptions
mergeProgressStats(stats, loaded) ==
  [stats EXCEPT !.set = TRUE, !.bytesReceived = loaded]

\* handleProgress testing the key only, not whether the init segment is there
handleProgress_KeyGuardOnly(s, loaded, p) ==
  LET s1 == IF ~s.segment.key
            THEN LET start == Min(OrZero(s.segment.lastReachedChar), loaded)
                     h == handleDecryptedBytes(s, Bytes(start, loaded), TRUE, FALSE, p)
                 IN [h.s EXCEPT !.segment.lastReachedChar = PlusEq(@, h.n)]
            ELSE s
      s2 == [s1 EXCEPT !.segment.stats = mergeProgressStats(@, loaded)]
  IN IF ~s2.segment.stats.firstBytesReceivedAt /\ s2.segment.stats.bytesReceived # 0
     THEN [s2 EXCEPT !.segment.stats.firstBytesReceivedAt = TRUE]
     ELSE s2

\* handleProgress(segment, progressFn, dataFn)(event), event.loaded = loaded
handleProgress(s, loaded, p) ==
  LET s1 == IF ~s.segment.key /\ (~s.segment.map \/ s.segment.mapBytes)
            THEN LET start == Min(OrZero(s.segment.lastReachedChar), loaded)
                     h == handleDecryptedBytes(s, Bytes(start, loaded), TRUE, FALSE, p)
                 IN [h.s EXCEPT !.segment.lastReachedChar = PlusEq(@, h.n)]
            ELSE s
      s2 == [s1 EXCEPT !.segment.stats = mergeProgressStats(@, loaded)]
  IN IF ~s2.segment.stats.firstBytesReceivedAt /\ s2.segment.stats.bytesReceived # 0
     THEN [s2 EXCEPT !.segment.stats.firstBytesReceivedAt = TRUE]
     ELSE s2


----------------------------------------------------------------------------
(* Initial states: a fresh descriptor and the transport's behaviour *)

\* mediaSegmentRequest issuing the media request first
Needed_MediaFirst(seg) ==
  <<"media">>
  \o (IF seg.key THEN <<"key">> ELSE <<>>)
  \o (IF seg.map /\ ~seg.mapBytes THEN <<"init">> ELSE <<>>)

\* the requests mediaSegmentRequest issues for a descriptor, in order
Needed(seg) ==
  (IF seg.key THEN <<"key">> ELSE <<>>)
  \o (IF seg.map /\ ~seg.mapBytes THEN <<"init">> ELSE <<>>)
  \o <<"media">>

InSeq(x, q) == \E i \in 1..Len(q) : q[i] = x

\* what the fragmented-container parser may answer when it is given n bytes
\* (it is consulted only for a descriptor with a map)
ParseOutcomes(seg, n) ==
  IF seg.map THEN [used : 0..n, out : BOOLEAN] ELSE {NoParse}

\* the bytes of the media response not yet consumed, of `loaded' received
Unconsumed(seg, loaded) == loaded - Min(OrZero(seg.lastReachedChar), loaded)

Init ==
  /\ pc = "init"
  /\ \E key \in BOOLEAN, map \in BOOLEAN, mapBytes \in BOOLEAN,
        cursor \in {Undefined, Num(0)} :
       /\ mapBytes => map
       /\ segment = [requestId |-> RequestId, decryptedFor |-> "none",
                     key |-> key, keyBytes |-> FALSE, keyWords |-> <<>>,
                     map |-> map, mapBytes |-> mapBytes,
                     mapLen |-> IF mapBytes THEN 1 ELSE 0,
                     lastReachedChar |-> cursor,
                     bytes |-> NoBytes, encryptedBytes |-> NoBytes,
                     transferred |-> FALSE,
                     stats |-> [set |-> FALSE, bytesReceived |-> 0,
                                firstBytesReceivedAt |-> FALSE],
                     endOfAllRequests |-> FALSE, boxes |-> 0]
  /\ xhrs = [r \in Reqs |-> [uri |-> r, state |-> "unissued", aborted |-> FALSE,
                             timedout |-> FALSE, result |-> "none",
                             response |-> NoResponse,
                             abortCount |-> 0, abortsInFlight |-> 0, loaded |-> 0]]
  /\ syncAbort \in BOOLEAN
  /\ activeXhrs = <<>>
  /\ errors = <<>>
  /\ count = 0
  /\ decrypter = [listeners |-> {}, inbox |-> {}]
  /\ transmuxQ = <<>>
  /\ classified = [called |-> FALSE, error |-> FALSE, timedout |-> FALSE,
                   aborted |-> FALSE, code |-> 0]
  /\ handoffs = <<>>
  /\ dispatched = <<>>
  /\ lastParse = [called |-> FALSE, isEndOfSegment |-> FALSE, out |-> FALSE,
                  dataFn |-> FALSE, priorBoxes |-> 0, boxes |-> 0,
                  numUsedBytes |-> 0]
  /\ doneCalls = <<>>
  /\ emptyFinal = FALSE
  /\ handleAborted = {}
  /\ progressCalls = 0
  /\ abortCalls = 0
  /\ segs = <<>>
  /\ repeats = 0

----------------------------------------------------------------------------
(* Actions *)

\* mediaSegmentRequest(xhr, xhrOptions, decryptionWorker, segment, ...):
\* issues the requests and pushes each on activeXhrs
MediaSegmentRequest ==
  /\ pc = "init"
  /\ pc' = "running"
  /\ activeXhrs' = Needed(segment)
  /\ xhrs' = [r \in Reqs |-> IF InSeq(r, Needed(segment))
                             THEN [xhrs[r] EXCEPT !.state = "inflight"]
                             ELSE xhrs[r]]
  /\ UNCHANGED <<segment, syncAbort, errors, count, decrypter, transmuxQ,
                 classified, handoffs, dispatched, lastParse, doneCalls,
                 emptyFinal, handleAborted, progressCalls, abortCalls>>
  /\ UNCHANGED <<segs, repeats>>

\* key response bodies: of 15, 16 and 17 bytes, the 16-byte ones with
\* different bytes at every offset and with the largest word a TLC integer
\* can hold
KeyBodies ==
  { [i \in 1..(KeyLength - 1) |-> i],
    [i \in 1..KeyLength |-> i - 1],
    [i \in 1..KeyLength |-> IF i % 4 = 1 THEN 127 ELSE 256 - i],
    [i \in 1..(KeyLength + 1) |-> i] }

\* the response bodies the transport may deliver for a successful request
Responses(r) ==
  CASE r = "key" -> {[type |-> "arraybuffer", len |-> Len(b), body |-> b] : b \in KeyBodies}
    [] r = "init" -> [type : {"arraybuffer"}, len : 0..MaxBody]
    [] r = "media" -> [type : {"text"}, len : xhrs["media"].loaded..MaxBody]

\* the bytes the final parse would be given if the callback of request r,
\* delivering `response', is the one that completes the segment (a descriptor
\* with a key is parsed in the worker's reply, not in a transport callback)
Supplied(r, response) ==
  IF segment.key THEN 0
  ELSE IF r = "media" THEN Unconsumed(segment, response.len)
  ELSE ByteLength(segment.bytes)

\* The transport invokes the callback of request r, once: with an error or
\* not, timed out or not.  A timeout is signalled with an error and may also
\* leave the request flagged aborted; a request that was cancelled is not
\* reported as timed out.
XhrCallback(r) ==
  /\ pc = "running"
  /\ xhrs[r].state = "inflight"
  /\ \E error \in BOOLEAN, timedout \in BOOLEAN, flagged \in BOOLEAN :
       /\ timedout => error
       /\ IF xhrs[r].aborted THEN ~timedout /\ flagged ELSE flagged => timedout
       /\ \E response \in (IF error \/ flagged THEN {NoResponse} ELSE Responses(r)) :
          \E p \in ParseOutcomes(segment, Supplied(r, response)) :
            LET s0 == [Cur EXCEPT !.xhrs[r].state = "done",
                                  !.xhrs[r].response = response,
                                  !.xhrs[r].timedout = timedout,
                                  !.xhrs[r].aborted = flagged,
                                  !.xhrs[r].result =
                                     IF error \/ flagged THEN "error" ELSE "ok",
                                  !.xhrs[r].loaded = IF response.type = "text"
                                                     THEN response.len ELSE @]
            IN \E s1 \in {responseCallback(s0, r, error, response, p)} : Commit(s1)
  /\ UNCHANGED <<pc, syncAbort, emptyFinal, handleAborted, progressCalls, abortCalls>>
  /\ UNCHANGED <<segs, repeats>>

\* a progress event of the media request: `loaded' bytes received so far
Progress ==
  /\ pc = "running"
  /\ xhrs["media"].state = "inflight"
  /\ ~xhrs["media"].aborted
  /\ progressCalls < MaxProgress
  /\ \E loaded \in xhrs["media"].loaded..MaxBody :
     \E p \in ParseOutcomes(segment, Unconsumed(segment, loaded)) :
     \E s1 \in {handleProgress([Cur EXCEPT !.xhrs["media"].loaded = loaded], loaded, p)} :
       Commit(s1)
  /\ progressCalls' = progressCalls + 1
  /\ UNCHANGED <<pc, syncAbort, emptyFinal, handleAborted, abortCalls>>
  /\ UNCHANGED <<segs, repeats>>

\* the caller invokes the function mediaSegmentRequest returned
AbortHandle ==
  /\ pc = "running"
  /\ abortCalls < MaxAborts
  /\ \E s1 \in {abortAll(Cur, NoParse)} : Commit(s1)
  /\ abortCalls' = abortCalls + 1
  /\ handleAborted' = handleAborted \cup {r \in Reqs : xhrs[r].state = "inflight"}
  /\ UNCHANGED <<pc, syncAbort, emptyFinal, progressCalls>>
  /\ UNCHANGED <<segs, repeats>>

\* a 'message' event of the decryption worker, delivered to the segment's
\* listener: the reply to the segment's own message, or a reply addressed to
\* another segment of the shared channel
WorkerReply ==
  /\ pc = "running"
  /\ RequestId \in decrypter.listeners
  /\ \E source \in decrypter.inbox \cup {"other"} :
     \E p \in ParseOutcomes(segment, ByteLength(segment.encryptedBytes)) :
       LET s0 == [Cur EXCEPT !.decrypter.inbox = @ \ {source}]
           event == [source |-> source, decrypted |-> segment.encryptedBytes]
       IN \E s1 \in {decryptionHandler(s0, event, p)} : Commit(s1)
  /\ UNCHANGED <<pc, syncAbort, emptyFinal, handleAborted, progressCalls, abortCalls>>
  /\ UNCHANGED <<segs, repeats>>

\* onDone calling doneFn whether or not the result has timing information
TransmuxDone_IgnoreTiming(timing) ==
  /\ transmuxQ # <<>>
  /\ transmuxQ' = Tail(transmuxQ)
  /\ doneCalls' = IF Head(transmuxQ).doneFn
                  THEN Append(doneCalls, NoError)
                  ELSE doneCalls
  /\ emptyFinal' = (emptyFinal \/ (~timing /\ ~Head(transmuxQ).isPartial))
  /\ UNCHANGED <<pc, segment, xhrs, syncAbort, activeXhrs, errors, count,
                 decrypter, classified, handoffs, dispatched, lastParse,
                 handleAborted, progressCalls, abortCalls>>
  /\ UNCHANGED <<segs, repeats>>

\* the onDone callback transmuxAndNotify gives the transmuxer; `timing' is
\* whether the result carries audio or video timing information
TransmuxDone(timing) ==
  /\ transmuxQ # <<>>
  /\ transmuxQ' = Tail(transmuxQ)
  /\ doneCalls' = IF timing /\ Head(transmuxQ).doneFn
                  THEN Append(doneCalls, NoError)
                  ELSE doneCalls
  /\ emptyFinal' = (emptyFinal \/ (~timing /\ ~Head(transmuxQ).isPartial))
  /\ UNCHANGED <<pc, segment, xhrs, syncAbort, activeXhrs, errors, count,
                 decrypter, classified, handoffs, dispatched, lastParse,
                 handleAborted, progressCalls, abortCalls>>
  /\ UNCHANGED <<segs, repeats>>

Next ==
  \/ MediaSegmentRequest
  \/ \E r \in Reqs : XhrCallback(r)
  \/ Progress
  \/ AbortHandle
  \/ WorkerReply
  \/ \E timing \in BOOLEAN : TransmuxDone(timing)

Spec == Init /\ [][Next]_vars


----------------------------------------------------------------------------
(* Several invocations decrypting over one shared worker channel.  Each     *)
(* segment of SegIds has its own mediaSegmentRequest invocation: its own    *)
(* descriptor, tracker and listener closure, kept in segs[k]; the worker    *)
(* channel (variable decrypter) is the one thing they share.  Every segment *)
(* has a key, whose request has succeeded, and awaits its media response.   *)

SegIds == {"a", "b", "c"}

\* the order in which the channel notifies its listeners
SegOrder == <<"a", "b", "c">>

EmptyChannel == [listeners |-> {}, inbox |-> {}]

\* the invocation for descriptor `id' after its key request succeeded
SegState(id, map) ==
  [segment |-> [requestId |-> id, decryptedFor |-> "none",
                key |-> TRUE, keyBytes |-> TRUE, keyWords |-> <<1, 2, 3, 4>>,
                map |-> map, mapBytes |-> map, mapLen |-> IF map THEN 1 ELSE 0,
                lastReachedChar |-> Undefined,
                bytes |-> NoBytes, encryptedBytes |-> NoBytes,
                transferred |-> FALSE,
                stats |-> [set |-> FALSE, bytesReceived |-> 0,
                           firstBytesReceivedAt |-> FALSE],
                endOfAllRequests |-> FALSE, boxes |-> 0],
   xhrs |-> [r \in Reqs |->
               [uri |-> r,
                state |-> CASE r = "key" -> "done" [] r = "media" -> "inflight"
                            [] OTHER -> "unissued",
                aborted |-> FALSE, timedout |-> FALSE,
                result |-> IF r = "key" THEN "ok" ELSE "none",
                response |-> NoResponse,
                abortCount |-> 0, abortsInFlight |-> 0, loaded |-> 0]],
   activeXhrs |-> <<"key", "media">>,
   errors |-> <<>>,
   count |-> 1,
   decrypter |-> EmptyChannel,
   transmuxQ |-> <<>>,
   classified |-> [called |-> TRUE, error |-> FALSE, timedout |-> FALSE,
                   aborted |-> FALSE, code |-> 0],
   handoffs |-> <<>>,
   dispatched |-> <<>>,
   lastParse |-> [called |-> FALSE, isEndOfSegment |-> FALSE, out |-> FALSE,
                  dataFn |-> FALSE, priorBoxes |-> 0, boxes |-> 0,
                  numUsedBytes |-> 0],
   doneCalls |-> <<>>]

\* the variables of the single invocation, which stands idle here
DecryptInit ==
  /\ pc = "shared"
  /\ \E s \in {SegState(RequestId, FALSE)} :
       /\ segment = s.segment /\ xhrs = s.xhrs /\ activeXhrs = s.activeXhrs
       /\ errors = s.errors /\ count = s.count /\ transmuxQ = s.transmuxQ
       /\ classified = s.classified /\ handoffs = s.handoffs
       /\ dispatched = s.dispatched /\ lastParse = s.lastParse
       /\ doneCalls = s.doneCalls
  /\ syncAbort = FALSE
  /\ emptyFinal = FALSE /\ handleAborted = {} /\ progressCalls = 0 /\ abortCalls = 0
  /\ decrypter = EmptyChannel
  /\ \E maps \in [SegIds -> BOOLEAN] : segs = [k \in SegIds |-> SegState(k, maps[k])]
  /\ repeats = 0

Idle == <<pc, segment, xhrs, syncAbort, activeXhrs, errors, count, transmuxQ,
          classified, handoffs, dispatched, lastParse, doneCalls, emptyFinal,
          handleAborted, progressCalls, abortCalls>>

\* the media request of segment k succeeds: its callback completes the
\* tracker of k, which hands the segment to the worker
SegmentResponse(k) ==
  /\ pc = "shared"
  /\ segs[k].xhrs["media"].state = "inflight"
  /\ \E len \in 1..MaxBody :
       LET s0 == [segs[k] EXCEPT !.decrypter = decrypter,
                                 !.xhrs["media"].state = "done",
                                 !.xhrs["media"].result = "ok",
                                 !.xhrs["media"].response = [type |-> "text", len |-> len],
                                 !.xhrs["media"].loaded = len]
       IN \E s1 \in {responseCallback(s0, "media", FALSE,
                                      [type |-> "text", len |-> len], NoParse)} :
            /\ segs' = [segs EXCEPT ![k] = [s1 EXCEPT !.decrypter = EmptyChannel]]
            /\ decrypter' = s1.decrypter
  /\ UNCHANGED <<Idle, repeats>>

\* the channel dispatches `event' to the listeners registered, from the
\* i-th of SegOrder on; c is [segs, decrypter]
RECURSIVE deliver(_, _, _, _)
deliver(c, i, event, p) ==
  IF i > Len(SegOrder) THEN c
  ELSE LET k == SegOrder[i] IN
       IF k \in c.decrypter.listeners
       THEN LET s1 == decryptionHandler([c.segs[k] EXCEPT !.decrypter = c.decrypter],
                                        event, p)
            IN deliver([segs |-> [c.segs EXCEPT ![k] = [s1 EXCEPT !.decrypter = EmptyChannel]],
                        decrypter |-> s1.decrypter], i + 1, event, p)
       ELSE deliver(c, i + 1, event, p)

\* the segments whose message the worker has answered
Answered == {k \in SegIds : segs[k].segment.transferred /\ k \notin decrypter.inbox}

\* the worker posts a reply: to a message it holds, in any order, or once
\* more to one it has answered; the payload is the buffer it was sent
WorkerMessage ==
  /\ pc = "shared"
  /\ \E source \in decrypter.inbox \cup (IF repeats < MaxRepeats THEN Answered ELSE {}) :
     \E p \in ParseOutcomes(segs[source].segment,
                            ByteLength(segs[source].segment.encryptedBytes)) :
       LET event == [source |-> source,
                     decrypted |-> segs[source].segment.encryptedBytes]
           c0 == [segs |-> segs,
                  decrypter |-> [decrypter EXCEPT !.inbox = @ \ {source}]]
       IN /\ \E c1 \in {deliver(c0, 1, event, p)} :
               segs' = c1.segs /\ decrypter' = c1.decrypter
          /\ repeats' = IF source \in decrypter.inbox THEN repeats ELSE repeats + 1
  /\ UNCHANGED Idle

DecryptNext ==
  \/ \E k \in SegIds : SegmentResponse(k)
  \/ WorkerMessage

DecryptSpec == DecryptInit /\ [][DecryptNext]_vars

----------------------------------------------------------------------------
(* The request headers mediaSegmentRequest builds for the init-segment and  *)
(* the media request, over descriptors with and without byte-ranges.        *)

NoByterange == [set |-> FALSE, offset |-> 0, length |-> 0]

\* the byte-ranges a playlist may give: offset >= 0, length > 0
Byteranges ==
  {NoByterange} \cup [set : {TRUE}, offset : (0..MaxOffset) \cup {500},
                                    length : (1..MaxLength) \cup {1000}]

NoHeaders == [hasRange |-> FALSE, Range |-> ""]

\* byterangeStr with an exclusive end
byterangeStr_Exclusive(byterange) ==
  LET byterangeEnd == byterange.offset + byterange.length
      byterangeStart == byterange.offset
  IN "bytes=" \o ToString(byterangeStart) \o "-" \o ToString(byterangeEnd)

byterangeStr(byterange) ==
  LET byterangeEnd == byterange.offset + byterange.length - 1
      byterangeStart == byterange.offset
  IN "bytes=" \o ToString(byterangeStart) \o "-" \o ToString(byterangeEnd)

\* segmentXhrHeaders(segment): segment is a descriptor or its map
segmentXhrHeaders(seg) ==
  IF seg.byterange.set
  THEN [hasRange |-> TRUE, Range |-> byterangeStr(seg.byterange)]
  ELSE NoHeaders

HeaderIdle == <<syncAbort, activeXhrs, errors, count, decrypter, transmuxQ,
                classified, handoffs, dispatched, lastParse, doneCalls,
                emptyFinal, handleAborted, progressCalls, abortCalls, segs,
                repeats>>

HeaderInit ==
  /\ pc = "headers"
  /\ \E b \in Byteranges, m \in BOOLEAN, cached \in BOOLEAN, mb \in Byteranges :
       /\ ~m => (mb = NoByterange /\ ~cached)
       /\ segment = [byterange |-> b,
                     map |-> [set |-> m, bytes |-> cached, byterange |-> mb]]
  /\ xhrs = [r \in {"init", "media"} |-> [issued |-> FALSE, headers |-> NoHeaders]]
  /\ syncAbort = FALSE /\ activeXhrs = <<>> /\ errors = <<>> /\ count = 0
  /\ decrypter = [listeners |-> {}, inbox |-> {}]
  /\ transmuxQ = <<>> /\ handoffs = <<>> /\ dispatched = <<>> /\ doneCalls = <<>>
  /\ classified = [called |-> FALSE, error |-> FALSE, timedout |-> FALSE,
                   aborted |-> FALSE, code |-> 0]
  /\ lastParse = [called |-> FALSE, isEndOfSegment |-> FALSE, out |-> FALSE,
                  dataFn |-> FALSE, priorBoxes |-> 0, boxes |-> 0,
                  numUsedBytes |-> 0]
  /\ emptyFinal = FALSE /\ handleAborted = {} /\ progressCalls = 0 /\ abortCalls = 0
  /\ segs = <<>> /\ repeats = 0

\* mediaSegmentRequest building initSegmentOptions and segmentRequestOptions
IssueWithHeaders ==
  /\ pc = "headers"
  /\ pc' = "issued"
  /\ xhrs' = [r \in {"init", "media"} |->
               CASE r = "init" ->
                      IF segment.map.set /\ ~segment.map.bytes
                      THEN [issued |-> TRUE, headers |-> segmentXhrHeaders(segment.map)]
                      ELSE xhrs[r]
                 [] r = "media" ->
                      [issued |-> TRUE, headers |-> segmentXhrHeaders(segment)]]
  /\ UNCHANGED <<segment, HeaderIdle>>

HeaderNext == IssueWithHeaders

HeaderSpec == HeaderInit /\ [][HeaderNext]_vars

----------------------------------------------------------------------------
(* The box scan of the earlier parseMp4AndNotify: a media body made of     *)
(* boxes is received piece by piece and scanned for complete boxes         *)

\* 4 bytes for size, 4 bytes for box type
BoxHeader == 8
\* the sizes a box declares, and the extents a box of declared size 0 has
BoxLengths == {BoxHeader, BoxHeader + 2}
\* what a 32-bit read that is not at the start of a box finds
PayloadWords == {0, BoxHeader + 1}

RECURSIVE SumSeq(_)
SumSeq(q) == IF q = <<>> THEN 0 ELSE q[1] + SumSeq(Tail(q))

\* a media body: boxes of declared sizes `sizes', then, if zero > 0, a last
\* box of declared size 0 that is `zero' bytes long
ZeroStart(body) == SumSeq(body.sizes)
BodyLength(body) == ZeroStart(body) + body.zero

Bodies ==
  {b \in [sizes : UNION {[1..n -> BoxLengths] : n \in 0..MaxBoxes},
          zero : {0} \cup BoxLengths,
          payload : PayloadWords] : BodyLength(b) > 0}

\* view.getUint32(pos) on the body: the declared size if a box starts at
\* pos, the payload word if not
Uint32At(body, pos) ==
  IF \E k \in 1..Len(body.sizes) : pos = SumSeq(SubSeq(body.sizes, 1, k - 1))
  THEN LET k == CHOOSE j \in 1..Len(body.sizes) :
                   pos = SumSeq(SubSeq(body.sizes, 1, j - 1))
       IN body.sizes[k]
  ELSE IF body.zero > 0 /\ pos = ZeroStart(body) THEN 0
  ELSE body.payload

\* the while loop of completeMp4BoxesOffset.  view is a DataView on
\* bytes.buffer, the whole buffer under the array, which starts at position
\* bytes.view of the body: view.getUint32(completeBoxesOffset) reads there
RECURSIVE scanBoxes(_, _, _, _)
scanBoxes(bytes, reachesEndOfFile, completeBoxesOffset, remainingBytes) ==
  IF remainingBytes < BoxHeader THEN completeBoxesOffset
  ELSE LET read == Uint32At(bytes.body, bytes.view + completeBoxesOffset)
           boxLength == IF read = 0 THEN remainingBytes ELSE read
       IN IF read = 0 /\ ~reachesEndOfFile THEN completeBoxesOffset
          ELSE IF remainingBytes < boxLength THEN completeBoxesOffset
          ELSE scanBoxes(bytes, reachesEndOfFile,
                         completeBoxesOffset + boxLength,
                         remainingBytes - boxLength)

\* completeMp4BoxesOffset(bytes, reachesEndOfFile): the number of bytes
\* used, the offset behind the last complete box
completeMp4BoxesOffset(bytes, reachesEndOfFile) ==
  scanBoxes(bytes, reachesEndOfFile, 0, ByteLength(bytes))

\* the earlier parseMp4AndNotify({segment, bytes, isPartial, ...}): it
\* passes isPartial as the second argument of completeMp4BoxesOffset and
\* returns the offset
parseMp4Boxes(bytes, isPartial) ==
  completeMp4BoxesOffset(bytes, isPartial)

\* new Uint8Array(stringToArrayBuffer(responseText.substring(
\* lastReachedChar || 0))) of the first `loaded' bytes: an array on a buffer
\* of its own
BodyFrom(seg, loaded) ==
  LET start == Min(OrZero(seg.lastReachedChar), loaded)
  IN [set |-> TRUE, body |-> seg.body, view |-> start, from |-> start,
      to |-> loaded]

BoxEntry(bytes, isPartial, used) ==
  [isPartial |-> isPartial, from |-> bytes.from, to |-> bytes.to,
   route |-> "mp4", used |-> used]

BoxIdle == <<syncAbort, activeXhrs, errors, count, decrypter, transmuxQ,
             classified, handoffs, lastParse, doneCalls, emptyFinal,
             handleAborted, abortCalls, segs, repeats>>

BoxInit ==
  /\ pc = "boxes"
  /\ \E b \in Bodies, c \in {Num(0), Undefined} :
       segment = [key |-> FALSE, map |-> TRUE, body |-> b, lastReachedChar |-> c]
  /\ xhrs = [r \in {"media"} |-> [loaded |-> 0]]
  /\ syncAbort = FALSE /\ activeXhrs = <<"media">> /\ errors = <<>> /\ count = 0
  /\ decrypter = [listeners |-> {}, inbox |-> {}]
  /\ transmuxQ = <<>> /\ handoffs = <<>> /\ dispatched = <<>> /\ doneCalls = <<>>
  /\ classified = [called |-> FALSE, error |-> FALSE, timedout |-> FALSE,
                   aborted |-> FALSE, code |-> 0]
  /\ lastParse = [called |-> FALSE, isEndOfSegment |-> FALSE, out |-> FALSE,
                  dataFn |-> FALSE, priorBoxes |-> 0, boxes |-> 0,
                  numUsedBytes |-> 0]
  /\ emptyFinal = FALSE /\ handleAborted = {} /\ progressCalls = 0 /\ abortCalls = 0
  /\ segs = <<>> /\ repeats = 0

\* more bytes of the body arrive
BoxReceive ==
  /\ pc = "boxes"
  /\ xhrs["media"].loaded < BodyLength(segment.body)
  /\ \E n \in (xhrs["media"].loaded + 1)..BodyLength(segment.body) :
       xhrs' = [xhrs EXCEPT !["media"].loaded = n]
  /\ UNCHANGED <<pc, segment, dispatched, progressCalls, BoxIdle>>

\* the earlier handleProgress: a progress event of a segment without key
\* scans the bytes behind the cursor with isPartial = true
BoxProgress ==
  /\ pc = "boxes"
  /\ progressCalls < MaxProgress
  /\ xhrs["media"].loaded > 0
  /\ LET bytes == BodyFrom(segment, xhrs["media"].loaded)
         decryptedBytes == parseMp4Boxes(bytes, TRUE)
     IN /\ segment' = [segment EXCEPT !.lastReachedChar = PlusEq(@, decryptedBytes)]
        /\ dispatched' = Append(dispatched, BoxEntry(bytes, TRUE, decryptedBytes))
  /\ progressCalls' = progressCalls + 1
  /\ UNCHANGED <<pc, xhrs, BoxIdle>>

\* the media request completes: handleSegmentResponse cuts the bytes behind
\* the cursor and the hand-off scans them with isPartial = false
BoxFinal ==
  /\ pc = "boxes"
  /\ xhrs["media"].loaded = BodyLength(segment.body)
  /\ LET bytes == BodyFrom(segment, xhrs["media"].loaded)
     IN dispatched' = Append(dispatched,
                             BoxEntry(bytes, FALSE, parseMp4Boxes(bytes, FALSE)))
  /\ pc' = "done"
  /\ UNCHANGED <<segment, xhrs, progressCalls, BoxIdle>>

BoxNext == BoxReceive \/ BoxProgress \/ BoxFinal

BoxSpec == BoxInit /\ [][BoxNext]_vars

----------------------------------------------------------------------------
(* completeMp4BoxesOffset on its own: any array over any buffer            *)

\* declared sizes of the boxes of a buffer, one of them too small for a box
ScanLengths == BoxLengths \cup {3}

ScanBodies ==
  {b \in [sizes : UNION {[1..n -> ScanLengths] : n \in 0..MaxBoxes},
          zero : {0} \cup BoxLengths,
          payload : PayloadWords] : BodyLength(b) > 0}

\* new Uint8Array(buffer, byteOffset, byteLength): the array [from, to) on
\* the buffer that holds the body.  decryptionHandler builds the array it
\* hands to the parser this way, from the worker's byteOffset and byteLength
ArrayOn(body, byteOffset, byteLength) ==
  [set |-> TRUE, body |-> body, view |-> 0, from |-> byteOffset,
   to |-> byteOffset + byteLength]

ScanIdle == <<xhrs, syncAbort, activeXhrs, errors, count, decrypter, transmuxQ,
              classified, handoffs, dispatched, doneCalls, emptyFinal,
              handleAborted, progressCalls, abortCalls, segs, repeats>>

ScanInit ==
  /\ pc = "scan"
  /\ \E b \in ScanBodies, reachesEndOfFile \in BOOLEAN :
     \E byteOffset \in 0..BodyLength(b) :
     \E byteLength \in 0..(BodyLength(b) - byteOffset) :
       segment = [bytes |-> ArrayOn(b, byteOffset, byteLength),
                  reachesEndOfFile |-> reachesEndOfFile]
  /\ xhrs = [r \in {"media"} |-> [loaded |-> 0]]
  /\ syncAbort = FALSE /\ activeXhrs = <<>> /\ errors = <<>> /\ count = 0
  /\ decrypter = [listeners |-> {}, inbox |-> {}]
  /\ transmuxQ = <<>> /\ handoffs = <<>> /\ dispatched = <<>> /\ doneCalls = <<>>
  /\ classified = [called |-> FALSE, error |-> FALSE, timedout |-> FALSE,
                   aborted |-> FALSE, code |-> 0]
  /\ lastParse = [called |-> FALSE, isEndOfSegment |-> FALSE, out |-> FALSE,
                  dataFn |-> FALSE, priorBoxes |-> 0, boxes |-> 0,
                  numUsedBytes |-> 0]
  /\ emptyFinal = FALSE /\ handleAborted = {} /\ progressCalls = 0 /\ abortCalls = 0
  /\ segs = <<>> /\ repeats = 0

\* completeMp4BoxesOffset(bytes, reachesEndOfFile) is called; the offset it
\* returns is kept in lastParse.numUsedBytes
ScanCall ==
  /\ pc = "scan"
  /\ pc' = "scanned"
  /\ lastParse' = [lastParse EXCEPT
                     !.called = TRUE,
                     !.isEndOfSegment = segment.reachesEndOfFile,
                     !.numUsedBytes = completeMp4BoxesOffset(segment.bytes,
                                                             segment.reachesEndOfFile)]
  /\ UNCHANGED <<segment, ScanIdle>>

ScanNext == ScanCall

ScanSpec == ScanInit /\ [][ScanNext]_vars

----------------------------------------------------------------------------
(* A transport that may invoke a request's callback inside the call that   *)
(* issues it: mediaSegmentRequest step by step                             *)

\* how the transport answers the call xhr(options, callback) of a request:
\* later, or at once with a response, or at once with an error
Answers == {"async", "ok", "error"}

\* the response a request answered at once delivers
SyncResponse(r) ==
  CASE r = "key" -> LET b == CHOOSE k \in KeyBodies : Len(k) = KeyLength
                    IN [type |-> "arraybuffer", len |-> Len(b), body |-> b]
    [] r = "init" -> [type |-> "arraybuffer", len |-> 1]
    [] r = "media" -> [type |-> "text", len |-> 1]

\* mediaSegmentRequest from its i-th request on: xhr(...) is called, which
\* may run the callback before it returns, and only then is the request
\* pushed on activeXhrs
RECURSIVE issueFrom(_, _, _, _, _)
issueFrom(s, order, i, how, p) ==
  IF i > Len(order) THEN s
  ELSE LET r == order[i]
           error == how[r] = "error"
           response == IF error THEN NoResponse ELSE SyncResponse(r)
           s1 == IF how[r] = "async"
                 THEN [s EXCEPT !.xhrs[r].state = "inflight"]
                 ELSE responseCallback(
                        [s EXCEPT !.xhrs[r].state = "done",
                                  !.xhrs[r].response = response,
                                  !.xhrs[r].result = IF error THEN "error" ELSE "ok",
                                  !.xhrs[r].loaded = IF response.type = "text"
                                                     THEN response.len ELSE @],
                        r, error, response, p)
           s2 == [s1 EXCEPT !.activeXhrs = Append(@, r)]
       IN issueFrom(s2, order, i + 1, how, p)

\* mediaSegmentRequest(xhr, ...) with a transport that answers as `how' says
IssueRequests ==
  /\ pc = "init"
  /\ pc' = "running"
  /\ \E how \in [Reqs -> Answers] :
       /\ \A r \in Reqs : InSeq(r, Needed(segment)) \/ how[r] = "async"
       /\ \E p \in ParseOutcomes(segment, 1) :
          \E s1 \in {issueFrom(Cur, Needed(segment), 1, how, p)} : Commit(s1)
  /\ UNCHANGED <<syncAbort, emptyFinal, handleAborted, progressCalls, abortCalls>>
  /\ UNCHANGED <<segs, repeats>>

IssueNext ==
  \/ IssueRequests
  \/ \E r \in Reqs : XhrCallback(r)
  \/ WorkerReply
  \/ \E timing \in BOOLEAN : TransmuxDone(timing)

IssueSpec == Init /\ [][IssueNext]_vars

----------------------------------------------------------------------------
(* Properties *)

\* the requests the invocation issued
Issued == {r \in Reqs : InSeq(r, activeXhrs)}

\* every request of the invocation has called back
AllTerminal == pc = "running" /\ \A r \in Issued : xhrs[r].state = "done"

\* the final (isPartial = false) calls of handleDecryptedBytes
FinalDispatches == {i \in 1..Len(dispatched) : ~dispatched[i].isPartial}

\* the calls of doneFn with an error, and with null
ErrorReports == {i \in 1..Len(doneCalls) : doneCalls[i].code # 0}
NullReports == {i \in 1..Len(doneCalls) : doneCalls[i].code = 0}

\* the entries of the accumulator that request r contributed
ErrorsOf(r) == {i \in 1..Len(errors) : errors[i].xhr = r}

\* C1: the hand-off of the completion tracker fires at most once, it has
\* fired exactly when every one of the N requests has called back, and never
\* while a request is still in flight, whatever the order of the callbacks.
C1_HandOffOnceAfterAll ==
  /\ Len(handoffs) <= 1
  /\ (Len(handoffs) = 1) <=> AllTerminal
  /\ count = Cardinality({r \in Issued : xhrs[r].state = "done"})

\* C1 witness: three requests were issued, all called back, one hand-off
C1_Witness == Len(activeXhrs) = 3 /\ AllTerminal /\ Len(handoffs) = 1

\* C2: once every request has called back, the worker has replied and the
\* transmuxer has completed every push with timing information, doneFn has
\* been called, on the transmuxer path and on the fragmented-container path.
C2_DoneWhenQuiescent ==
  (AllTerminal /\ decrypter.inbox = {} /\ transmuxQ = <<>> /\ ~emptyFinal)
    => Len(doneCalls) >= 1

\* C3: doneFn is called with an error at most once, and never both with an
\* error and with null.
C3_AtMostOneError ==
  /\ Cardinality(ErrorReports) <= 1
  /\ ~(ErrorReports # {} /\ NullReports # {})

\* C3 witness: several requests failed and one error was reported
C3_Witness == Len(errors) >= 2 /\ Cardinality(ErrorReports) = 1

\* C4: when the count reaches the number of requests exactly one path runs:
\* the error path (doneFn with the chosen error, no decrypt, no final parse) if
\* an error was accumulated, else the decrypt-then-parse path if the segment
\* has an encrypted buffer, else the direct final parse.
C4_ExactlyOnePath ==
  /\ Len(handoffs) <= 1
  /\ Cardinality(FinalDispatches) <= 1
  /\ AllTerminal =>
       /\ Len(handoffs) = 1
       /\ (handoffs[1] = "error") <=> (Len(errors) > 0)
       /\ (handoffs[1] = "decrypt") <=> (Len(errors) = 0 /\ segment.encryptedBytes.set)
       /\ (handoffs[1] = "parse") <=> (Len(errors) = 0 /\ ~segment.encryptedBytes.set)
  /\ handoffs = <<"error">> =>
       /\ Cardinality(ErrorReports) = 1 /\ NullReports = {}
       /\ ~segment.transferred /\ decrypter = [listeners |-> {}, inbox |-> {}]
       /\ FinalDispatches = {}
  /\ handoffs = <<"decrypt">> =>
       /\ ErrorReports = {}
       /\ segment.transferred
       /\ (FinalDispatches = {}) <=> (RequestId \in decrypter.inbox)
  /\ handoffs = <<"parse">> =>
       /\ ErrorReports = {}
       /\ ~segment.transferred /\ decrypter = [listeners |-> {}, inbox |-> {}]
       /\ Cardinality(FinalDispatches) = 1

\* C4 witness: the error path ran for a segment that holds an encrypted buffer
C4_Witness == handoffs = <<"error">> /\ segment.encryptedBytes.set

\* C5: when a request has completed with an error, every request of the
\* in-flight set has received a cancel call, the error is in the accumulator
\* once, and the completion is counted.
C5_ErrorCancelsAllAndIsRecorded ==
  /\ Len(errors) > 0 => \A r \in Issued : xhrs[r].abortCount >= 1
  /\ \A r \in Issued : xhrs[r].result = "error" => Cardinality(ErrorsOf(r)) = 1
  /\ Len(errors) <= count

\* C5 witness: a request failed on its own while another was still in flight
C5_Witness ==
  \E r \in Issued, q \in Issued :
    /\ \E i \in ErrorsOf(r) : errors[i].code # ABORTED
    /\ xhrs[q].state = "inflight" /\ xhrs[q].abortCount >= 1


\* C6 as claimed: if a request fails (the caller never using the abort
\* handle), each other request that was in flight receives exactly one
\* cancel call over the whole invocation.
C6_CancelledExactlyOnce ==
  (abortCalls = 0 /\ Len(errors) > 0) =>
    \A r \in Issued :
      (xhrs[r].state = "inflight" \/ xhrs[r].abortsInFlight >= 1)
        => xhrs[r].abortsInFlight = 1

\* C6 amended: once a request has failed, every request still in flight has
\* received at least one cancel call (possibly several), and no request
\* contributes more than one error to the accumulator.
C6_CancelledAtLeastOnce ==
  /\ Len(errors) > 0 =>
       \A r \in Issued : xhrs[r].state = "inflight" => xhrs[r].abortsInFlight >= 1
  /\ \A r \in Issued : Cardinality(ErrorsOf(r)) <= 1

\* C6 witness: without any call of the abort handle, a request in flight has
\* received a second cancel call
C6_Witness ==
  /\ abortCalls = 0
  /\ \E r \in Issued : xhrs[r].state = "inflight" /\ xhrs[r].abortsInFlight = 2

\* C7: the error reported is the accumulated error with the highest code
\* (Failure 2 over Timeout -101 over Aborted -102) and, among several with
\* that code, the one appended first.
C7_HighestCodeFirstOnTie ==
  handoffs = <<"error">> =>
    /\ Len(doneCalls) = 1
    /\ \E i \in 1..Len(errors) :
         /\ doneCalls[1] = errors[i]
         /\ \A j \in 1..Len(errors) : errors[j].code <= errors[i].code
         /\ \A j \in 1..(i - 1) : errors[j].code < errors[i].code
    /\ (\E i \in 1..Len(errors) : errors[i].code = FAILURE) => doneCalls[1].code = 2
    /\ (/\ \E i \in 1..Len(errors) : errors[i].code = TIMEOUT
        /\ \A i \in 1..Len(errors) : errors[i].code # FAILURE) => doneCalls[1].code = -101

\* C7 witness: three errors of the same code, the first one reported
C7_Witness ==
  /\ handoffs = <<"error">>
  /\ Len(errors) = 3
  /\ \A i \in 1..3 : errors[i].code = ABORTED
  /\ doneCalls = <<errors[1]>>

\* C8: when a request failed with Timeout or Failure, that error is the one
\* reported, not the Aborted error of a cancelled sibling, also when the
\* sibling callbacks ran inside the failing request's handler.
C8_RootCauseReported ==
  \A i \in 1..Len(errors) :
    (errors[i].code \in {FAILURE, TIMEOUT} /\ handoffs # <<>>)
      => doneCalls = <<errors[i]>>

\* C8 witness: synchronous cancellation put the two Aborted errors in the
\* accumulator before the Timeout that caused them
C8_Witness ==
  /\ syncAbort
  /\ Len(errors) = 3
  /\ errors[1].code = ABORTED /\ errors[2].code = ABORTED /\ errors[3].code = TIMEOUT
  /\ doneCalls = <<errors[3]>>

\* C9: handleErrors classifies in the order timed out, aborted, error: a
\* timed-out request is Timeout whatever else holds, an aborted one that did
\* not time out is Aborted even with a null error, any other non-null error
\* is Failure, and the result is null only with a null error and no flag.
C9_ClassifierPriority ==
  classified.called =>
    /\ classified.timedout => classified.code = TIMEOUT
    /\ (classified.aborted /\ ~classified.timedout) => classified.code = ABORTED
    /\ (classified.error /\ ~classified.aborted /\ ~classified.timedout)
         => classified.code = FAILURE
    /\ (classified.code = 0)
         <=> (~classified.error /\ ~classified.aborted /\ ~classified.timedout)

\* C9 witness: a request both timed out and flagged aborted was classified
C9_Witness ==
  classified.called /\ classified.timedout /\ classified.aborted /\ classified.error

\* C10: a request that was in flight when the abort handle was called
\* contributes, once it has called back, exactly one error, an Aborted one;
\* and when all requests have called back doneFn has been called exactly
\* once, with an Aborted error unless an error of a higher code was
\* accumulated, which is then the one reported.
C10_AbortedOnce ==
  /\ \A r \in handleAborted :
       xhrs[r].state = "done" =>
         /\ Cardinality(ErrorsOf(r)) = 1
         /\ \A i \in ErrorsOf(r) : errors[i].code = ABORTED
  /\ (handleAborted # {} /\ AllTerminal) =>
       /\ Len(doneCalls) = 1
       /\ \/ doneCalls[1].code = ABORTED
          \/ \E i \in 1..Len(errors) :
               errors[i].code > ABORTED /\ doneCalls[1] = errors[i]

\* C10 witness: the handle was called with all three requests in flight and
\* doneFn received the first Aborted error
C10_Witness ==
  /\ handleAborted = Reqs
  /\ AllTerminal
  /\ doneCalls = <<errors[1]>> /\ errors[1].code = ABORTED

\* the outcome of request r as the program sees it
Outcome(x) == [state |-> x.state, aborted |-> x.aborted, timedout |-> x.timedout,
               result |-> x.result]

\* C11: a call of the abort handle after an earlier one changes nothing
\* but the transport's count of cancel calls: the accumulated errors, the
\* completion count, the reports to doneFn, the descriptor and every
\* request's state and flags stay as the first call left them; and at no
\* time has a request contributed two errors or doneFn received two.
C11_IdempotentCancel ==
  /\ [](/\ \A r \in Reqs : Cardinality(ErrorsOf(r)) <= 1
        /\ Len(doneCalls) <= 1)
  /\ [][(abortCalls >= 1 /\ abortCalls' = abortCalls + 1) =>
          /\ errors' = errors /\ count' = count /\ doneCalls' = doneCalls
          /\ handoffs' = handoffs /\ segment' = segment
          /\ decrypter' = decrypter /\ transmuxQ' = transmuxQ
          /\ \A r \in Reqs : Outcome(xhrs'[r]) = Outcome(xhrs[r])]_vars

\* C11 witness: the handle was called twice while the three requests were
\* in flight, all have called back and doneFn received one Aborted error
C11_Witness ==
  /\ abortCalls = 2 /\ ~syncAbort
  /\ handleAborted = Reqs
  /\ \A r \in Reqs : xhrs[r].abortsInFlight = 2
  /\ AllTerminal
  /\ Len(errors) = 3
  /\ doneCalls = <<errors[1]>> /\ errors[1].code = ABORTED

\* C12: mediaSegmentRequest issues its requests in one synchronous step
\* and in the order key, init segment, media segment: the key request iff
\* the segment has a key, the init-segment request iff it has a map without
\* cached bytes, the media request always; 1 to 3 requests, none twice, and
\* none is issued or re-issued afterwards (a request that called back stays
\* done); progress is recorded for the media request only.
C12_IssueOrder ==
  /\ [](/\ pc = "init" => (activeXhrs = <<>> /\ \A r \in Reqs : xhrs[r].state = "unissued")
        /\ \A r \in {"key", "init"} : xhrs[r].loaded = 0)
  /\ [][(pc = "init" /\ pc' = "running") =>
          LET q == activeXhrs' IN
          /\ Len(q) \in 1..3
          /\ \A i \in 1..Len(q), j \in 1..Len(q) : i # j => q[i] # q[j]
          /\ InSeq("key", q) <=> segment.key
          /\ InSeq("init", q) <=> (segment.map /\ ~segment.mapBytes)
          /\ q[Len(q)] = "media"
          /\ InSeq("key", q) => q[1] = "key"
          /\ \A r \in Reqs :
               xhrs'[r].state = IF InSeq(r, q) THEN "inflight" ELSE "unissued"]_vars
  /\ [][pc = "running" =>
          /\ activeXhrs' = activeXhrs
          /\ \A r \in Reqs :
               /\ xhrs[r].state = "unissued" => xhrs'[r].state = "unissued"
               /\ xhrs[r].state = "done" => xhrs'[r].state = "done"]_vars

\* C12 witness: the three requests have just been issued, in order
C12_Witness ==
  /\ pc = "running"
  /\ activeXhrs = <<"key", "init", "media">>
  /\ \A r \in Reqs : xhrs[r].state = "inflight"
  /\ count = 0

\* C13: for a segment without key and without map exactly one request, the
\* media request, is issued; when it succeeds the body (from the cursor on,
\* the whole body if no progress event was handled) is stored as the raw
\* buffer and the encrypted buffer stays unset; every dispatcher call goes to
\* the transmuxer, never to the fragmented-container parser or the worker;
\* and doneFn is called at most once, with null exactly when the request
\* succeeded and the transmuxer completed the final push with timing
\* information.
C13_PlainSegmentEndToEnd ==
  (pc = "running" /\ ~segment.key /\ ~segment.map) =>
    /\ activeXhrs = <<"media">>
    /\ xhrs["media"].result = "ok" =>
         /\ segment.bytes.set /\ ~segment.encryptedBytes.set
         /\ segment.bytes.to = xhrs["media"].loaded
         /\ segment.bytes.from =
              Min(OrZero(segment.lastReachedChar), xhrs["media"].loaded)
         /\ progressCalls = 0 => segment.bytes = Bytes(0, xhrs["media"].loaded)
    /\ \A i \in 1..Len(dispatched) : dispatched[i].route = "ts"
    /\ ~lastParse.called
    /\ decrypter = [listeners |-> {}, inbox |-> {}] /\ ~segment.transferred
    /\ Len(doneCalls) <= 1
    /\ (xhrs["media"].result = "ok" /\ transmuxQ = <<>> /\ ~emptyFinal)
         => doneCalls = <<NoError>>
    /\ doneCalls = <<NoError>> => xhrs["media"].result = "ok"

\* C13 witness: a plain segment whose body arrived over a progress event
\* and the response, and for which doneFn received null
C13_Witness ==
  /\ ~segment.key /\ ~segment.map
  /\ AllTerminal
  /\ progressCalls >= 1 /\ Len(dispatched) >= 2
  /\ segment.bytes.to = MaxBody
  /\ doneCalls = <<NoError>>

\* C14: for a segment with a key and without map two requests are issued,
\* key then media; the segment is handed to the decryption worker only when
\* both have succeeded, with the key bytes and the encrypted buffer present,
\* the buffer being the whole response body; the parse dispatcher is not
\* called while the reply is outstanding, never with isPartial = true, and
\* the reply has triggered exactly one call, a final one over the whole
\* body.
C14_EncryptedSegmentEndToEnd ==
  (pc = "running" /\ segment.key /\ ~segment.map) =>
    /\ activeXhrs = <<"key", "media">>
    /\ segment.transferred <=> (handoffs = <<"decrypt">>)
    /\ segment.transferred =>
         /\ xhrs["key"].result = "ok" /\ xhrs["media"].result = "ok"
         /\ segment.keyBytes
         /\ segment.encryptedBytes = Bytes(0, xhrs["media"].loaded)
    /\ (AllTerminal /\ Len(errors) = 0) => segment.transferred
    /\ \A i \in 1..Len(dispatched) : ~dispatched[i].isPartial
    /\ (~segment.transferred \/ RequestId \in decrypter.inbox) => dispatched = <<>>
    /\ (segment.transferred /\ RequestId \notin decrypter.inbox) =>
         /\ Len(dispatched) = 1
         /\ dispatched[1].from = 0 /\ dispatched[1].to = xhrs["media"].loaded

\* C14 witness: an encrypted segment whose media request reported progress
\* was decrypted and the reply was parsed once
C14_Witness ==
  /\ segment.key /\ ~segment.map
  /\ progressCalls >= 1
  /\ segment.transferred /\ RequestId \notin decrypter.inbox
  /\ Len(dispatched) = 1 /\ ~dispatched[1].isPartial
  /\ dispatched[1].to = MaxBody

\* C15: on the shared channel a segment has its listener registered exactly
\* from the moment it is handed to the worker until the first reply with its
\* request id; a reply with another id leaves the listener registered and
\* the invocation unchanged; the matching reply deregisters the listener;
\* and a later reply repeating an answered id changes nothing.
C15_OneListenerUntilReply ==
  /\ [](\A k \in SegIds :
          /\ k \in decrypter.listeners
               <=> (segs[k].segment.transferred /\ k \in decrypter.inbox)
          /\ k \in Answered => k \notin decrypter.listeners)
  /\ [][\A src \in SegIds :
          (src \in decrypter.inbox /\ src \notin decrypter'.inbox) =>
            /\ src \in decrypter.listeners /\ src \notin decrypter'.listeners
            /\ \A k \in SegIds \ {src} :
                 /\ segs'[k] = segs[k]
                 /\ k \in decrypter.listeners <=> k \in decrypter'.listeners]_vars
  /\ [][repeats' # repeats => (segs' = segs /\ decrypter' = decrypter)]_vars

\* C15 witness: a has been answered, and answered once more, while b is
\* still waiting with its listener registered
C15_Witness ==
  /\ pc = "shared"
  /\ "a" \in Answered /\ Len(segs["a"].dispatched) = 1
  /\ repeats = 1
  /\ "b" \in decrypter.listeners /\ "b" \in decrypter.inbox
  /\ segs["b"].dispatched = <<>>

\* C16: with several segments decrypting over one channel, in whatever
\* order the worker replies, a segment's decrypted bytes are installed only
\* by the reply carrying its own id and are its own buffer; its final
\* parse runs exactly once, when that reply has arrived and not before,
\* over that buffer; and once every reply has arrived no listener is left.
C16_RepliesRoutedById ==
  pc = "shared" =>
    /\ \A k \in SegIds :
         LET seg == segs[k].segment IN
         /\ seg.decryptedFor \in {"none", k}
         /\ seg.bytes.set <=> k \in Answered
         /\ seg.bytes.set => (seg.bytes = seg.encryptedBytes /\ seg.decryptedFor = k)
         /\ Len(segs[k].dispatched) = IF k \in Answered THEN 1 ELSE 0
         /\ k \in Answered =>
              /\ ~segs[k].dispatched[1].isPartial
              /\ segs[k].dispatched[1].to = segs[k].xhrs["media"].loaded
    /\ decrypter.inbox = {} => decrypter.listeners = {}
    /\ decrypter.listeners \subseteq SegIds

\* C16 witness: three segments with bodies of different lengths were
\* decrypting at once and each has been answered and parsed
C16_Witness ==
  /\ pc = "shared"
  /\ Answered = SegIds
  /\ decrypter = EmptyChannel
  /\ segs["a"].segment.bytes # segs["b"].segment.bytes
  /\ \A k \in SegIds : Len(segs[k].dispatched) = 1

\* the partial (isPartial = true) calls of handleDecryptedBytes
PartialDispatches == {i \in 1..Len(dispatched) : dispatched[i].isPartial}

\* C17: a progress event calls the parse dispatcher, once and with
\* isPartial = true, exactly when the segment has no key and its init
\* segment, if it has one, has been fetched; for a segment with a key, or
\* with a map whose bytes are not there yet, the event calls neither the
\* dispatcher nor a parser and leaves the cursor alone.
C17_ProgressDispatchGuard ==
  /\ [](PartialDispatches # {} => (~segment.key /\ (~segment.map \/ segment.mapBytes)))
  /\ [][progressCalls' = progressCalls + 1 =>
          IF ~segment.key /\ (~segment.map \/ segment.mapBytes)
          THEN /\ Len(dispatched') = Len(dispatched) + 1
               /\ dispatched'[Len(dispatched')].isPartial
               /\ \A i \in 1..Len(dispatched) : dispatched'[i] = dispatched[i]
          ELSE /\ dispatched' = dispatched
               /\ transmuxQ' = transmuxQ /\ lastParse' = lastParse
               /\ segment'.lastReachedChar = segment.lastReachedChar
               /\ segment'.boxes = segment.boxes]_vars

\* C17 witness: of two progress events of a segment with an init segment to
\* fetch, the one before the init segment arrived was not dispatched and the
\* one after it was
C17_Witness ==
  /\ ~segment.key /\ segment.map /\ InSeq("init", activeXhrs)
  /\ progressCalls = 2
  /\ Len(dispatched) = 1 /\ dispatched[1].isPartial

\* the consumed counts the dispatcher returned in its first n calls, summed
RECURSIVE SumUsed(_, _)
SumUsed(q, n) == IF n = 0 THEN 0 ELSE SumUsed(q, n - 1) + q[n].used

\* C18: for a segment without key whose cursor started at 0, every call of
\* the dispatcher starts where the consumption of the calls before it ended
\* (the first at byte 0) and extends to the last byte received at the time
\* of the call; the final call is the last one, starts at the cursor, which
\* is the sum of the counts the partial calls consumed, and ends at the end
\* of the body, whether or not progress events were dispatched before it.
C18_ContiguousRanges ==
  (~segment.key /\ segment.lastReachedChar.kind = "number") =>
    /\ \A i \in 1..Len(dispatched) :
         /\ dispatched[i].from = SumUsed(dispatched, i - 1)
         /\ dispatched[i].from <= dispatched[i].to
         /\ dispatched[i].to <= xhrs["media"].loaded
         /\ i > 1 => dispatched[i - 1].to <= dispatched[i].to
         /\ ~dispatched[i].isPartial =>
              /\ i = Len(dispatched)
              /\ dispatched[i].from = segment.lastReachedChar.v
              /\ dispatched[i].to = xhrs["media"].loaded
              /\ xhrs["media"].result = "ok"
    /\ segment.lastReachedChar.v =
         SumUsed(dispatched, Cardinality(PartialDispatches))

\* C18 witness: two partial calls, the first consuming nothing and the
\* second less than it was given, then the final call over the rest
C18_Witness ==
  /\ ~segment.key /\ segment.lastReachedChar = Num(1)
  /\ Len(dispatched) = 3
  /\ dispatched[1].used = 0 /\ dispatched[2].from = 0 /\ dispatched[2].to = 2
  /\ ~dispatched[3].isPartial
  /\ dispatched[3].from = 1 /\ dispatched[3].to = MaxBody

\* C19: the cursor, read as the code reads it (lastReachedChar || 0), is
\* the sum of the counts the dispatcher returned for the progress events, so
\* it changes only by those counts and never decreases; it never exceeds the
\* number of body bytes received; and the counts of all calls, the final one
\* included, sum to no more than the bytes received.
C19_CursorMonotone ==
  /\ OrZero(segment.lastReachedChar)
       = SumUsed(dispatched, Cardinality(PartialDispatches))
  /\ OrZero(segment.lastReachedChar) <= xhrs["media"].loaded
  /\ SumUsed(dispatched, Len(dispatched)) <= xhrs["media"].loaded

\* C20: when the callback of the media request has run with a successful
\* response, exactly one of segment.bytes and segment.encryptedBytes is
\* populated: the encrypted buffer if the segment has a key, the raw buffer
\* if not; neither is populated before, nor by a failed request; and the raw
\* buffer of a segment with a key is populated only later, by the worker's
\* reply.
C20_OneBufferByKey ==
  /\ [](IF xhrs["media"].result = "ok"
        THEN IF segment.key
             THEN /\ segment.encryptedBytes.set
                  /\ segment.bytes.set =>
                       (segment.transferred /\ segment.decryptedFor = RequestId)
             ELSE segment.bytes.set /\ ~segment.encryptedBytes.set
        ELSE ~segment.bytes.set /\ ~segment.encryptedBytes.set)
  /\ [][(xhrs["media"].result # "ok" /\ xhrs'["media"].result = "ok") =>
          /\ segment'.bytes.set # segment'.encryptedBytes.set
          /\ segment'.encryptedBytes.set <=> segment.key]_vars

\* C20 witness: the media request of a segment with a key succeeded while
\* the key request was still in flight
C20_Witness ==
  /\ segment.key /\ xhrs["key"].state = "inflight"
  /\ xhrs["media"].result = "ok"
  /\ segment.encryptedBytes.set /\ ~segment.bytes.set

\* the 32-bit word whose four bytes, most significant first, start at
\* offset n of the byte sequence b
WordAt(b, n) == ((b[n + 1] * 256 + b[n + 2]) * 256 + b[n + 3]) * 256 + b[n + 4]

\* C21: when the key request has succeeded at the transport, a response of
\* exactly 16 bytes has stored as key bytes the four big-endian 32-bit words
\* at byte offsets 0, 4, 8 and 12, in that order, and contributed no error;
\* a response of any other length has contributed one Failure error and the
\* key bytes are as they were, unset; either way the callback is counted.
C21_KeyHandler ==
  (pc = "running" /\ xhrs["key"].result = "ok") =>
    LET body == xhrs["key"].response.body IN
    /\ count >= 1
    /\ IF Len(body) = 16
       THEN /\ segment.keyBytes
            /\ segment.keyWords = <<WordAt(body, 0), WordAt(body, 4),
                                     WordAt(body, 8), WordAt(body, 12)>>
            /\ ErrorsOf("key") = {}
       ELSE /\ ~segment.keyBytes /\ segment.keyWords = <<>>
            /\ \E i \in 1..Len(errors) :
                 ErrorsOf("key") = {i} /\ errors[i].code = FAILURE

\* C21 witness: the 16 bytes 0, 1, ..., 15 were stored as 0x00010203,
\* 0x04050607, 0x08090a0b, 0x0c0d0e0f
C21_Witness ==
  /\ xhrs["key"].result = "ok"
  /\ segment.keyWords = <<66051, 67438087, 134810123, 202182159>>

\* C22: when the init-segment request has succeeded at the transport, an
\* empty response has contributed one Failure error and left the init
\* segment's bytes unset; a non-empty one has been stored whole as the init
\* segment's bytes and contributed no error; and the step of the init
\* callback calls the dispatcher only if it is also the hand-off of the
\* tracker, then once and with isPartial = false.
C22_InitHandler ==
  /\ []((pc = "running" /\ xhrs["init"].result = "ok") =>
         IF xhrs["init"].response.len = 0
         THEN /\ ~segment.mapBytes /\ segment.mapLen = 0
              /\ \E i \in 1..Len(errors) :
                   ErrorsOf("init") = {i} /\ errors[i].code = FAILURE
         ELSE /\ segment.mapBytes
              /\ segment.mapLen = xhrs["init"].response.len
              /\ ErrorsOf("init") = {})
  /\ [][(xhrs["init"].state = "inflight" /\ xhrs'["init"].state = "done") =>
          IF handoffs' = <<"parse">>
          THEN /\ Len(dispatched') = Len(dispatched) + 1
               /\ ~dispatched'[Len(dispatched')].isPartial
               /\ \A i \in 1..Len(dispatched) : dispatched'[i] = dispatched[i]
          ELSE dispatched' = dispatched]_vars

\* C22 witness: an init segment of the largest length was stored while the
\* media request was still in flight, so nothing was dispatched
C22_Witness ==
  /\ xhrs["init"].result = "ok" /\ xhrs["media"].state = "inflight"
  /\ segment.mapBytes /\ segment.mapLen = MaxBody
  /\ dispatched = <<>>

\* C23: when the media request has succeeded at the transport with an
\* empty body, the handler has reported one Failure error to the tracker,
\* every sibling has received a cancel call, neither the raw nor the
\* encrypted buffer is populated, and once all requests have called back
\* doneFn has received an error.
C23_EmptyMediaIsFailure ==
  (pc = "running" /\ xhrs["media"].result = "ok" /\ xhrs["media"].response.len = 0) =>
    /\ \E i \in 1..Len(errors) : ErrorsOf("media") = {i} /\ errors[i].code = FAILURE
    /\ \A r \in Issued : xhrs[r].abortCount >= 1
    /\ ~segment.bytes.set /\ ~segment.encryptedBytes.set
    /\ AllTerminal => Cardinality(ErrorReports) = 1

\* C24: the step that takes the error path calls doneFn once, with a
\* non-null error, and changes nothing of the descriptor but the time stamp
\* endOfAllRequests: the cursor, the statistics, the parser state and the
\* bytes the handlers stored are as they were; and after the error path the
\* descriptor never changes again.
C24_ErrorPathKeepsState ==
  /\ [][(handoffs = <<>> /\ handoffs' = <<"error">>) =>
          /\ doneCalls = <<>> /\ Len(doneCalls') = 1 /\ doneCalls'[1].code # 0
          /\ segment' = [segment EXCEPT !.endOfAllRequests = TRUE]]_vars
  /\ [][handoffs = <<"error">> => segment' = segment]_vars

\* C24 witness: the error path ran for a descriptor with an init segment
\* stored, statistics recorded, parser state kept and the cursor advanced
C24_Witness ==
  /\ handoffs = <<"error">> /\ Len(doneCalls) = 1
  /\ segment.mapBytes /\ xhrs["init"].result = "ok"
  /\ segment.stats.set
  /\ segment.boxes >= 1
  /\ segment.lastReachedChar = Num(1)

\* C25: when the transmuxer completes a push, doneFn is called, with null,
\* only if the push was the final one and the completion carries timing
\* information: the completion of a partial push never calls it, and a final
\* completion without timing information is recorded as empty and calls
\* nothing; so a null report exists only after the final push of the
\* transmuxer path completed with timing information.
C25_DoneNeedsTiming ==
  /\ [](NullReports # {} =>
         /\ ~segment.map /\ ~emptyFinal
         /\ \E i \in FinalDispatches : dispatched[i].route = "ts"
         /\ \A i \in 1..Len(transmuxQ) : transmuxQ[i].isPartial)
  /\ [][(transmuxQ # <<>> /\ transmuxQ' = Tail(transmuxQ)) =>
          IF Head(transmuxQ).isPartial
          THEN doneCalls' = doneCalls /\ emptyFinal' = emptyFinal
          ELSE \/ doneCalls' = Append(doneCalls, NoError) /\ emptyFinal' = emptyFinal
               \/ doneCalls' = doneCalls /\ emptyFinal']_vars

\* C25 witness: after a partial push, the final push completed without
\* timing information and doneFn was never called
C25_Witness ==
  /\ AllTerminal /\ handoffs = <<"parse">>
  /\ PartialDispatches # {}
  /\ transmuxQ = <<>> /\ emptyFinal
  /\ doneCalls = <<>>

\* C26: the calls of the dispatcher for a segment are ordered as the bytes
\* arrived: there is at most one final call, it is the last call, and no
\* call follows it; the partial calls, at most one per progress event and
\* exactly one per event of a segment that has neither key nor map, end at
\* non-decreasing positions of the body; and the progress event that makes
\* a call adds the count it consumed to the cursor in the same step.
C26_PartialBeforeFinal ==
  /\ [](/\ Cardinality(FinalDispatches) <= 1
        /\ \A i \in FinalDispatches : i = Len(dispatched)
        /\ \A i \in 2..Len(dispatched) : dispatched[i - 1].to <= dispatched[i].to
        /\ Cardinality(PartialDispatches) <= progressCalls
        /\ (~segment.key /\ ~segment.map)
             => Cardinality(PartialDispatches) = progressCalls)
  /\ [][FinalDispatches # {} => dispatched' = dispatched]_vars
  /\ [][(progressCalls' # progressCalls /\ dispatched' # dispatched) =>
          /\ FinalDispatches = {}
          /\ segment'.lastReachedChar =
               PlusEq(segment.lastReachedChar, dispatched'[Len(dispatched')].used)]_vars

\* C26 witness: two progress events, with one byte and then two received,
\* were dispatched before the final call
C26_Witness ==
  /\ progressCalls = 2 /\ Len(dispatched) = 3
  /\ dispatched[1].isPartial /\ dispatched[1].to = 1
  /\ dispatched[2].isPartial /\ dispatched[2].to = 2
  /\ ~dispatched[3].isPartial

\* C27: a request for a record with a byte-range (offset, length) carries
\* the header Range: bytes=<offset>-<offset+length-1>, the inclusive range
\* of `length' bytes from `offset'; a request for a record without
\* byte-range carries no Range header; for the media request and for the
\* init-segment request alike.
C27_RangeHeader ==
  pc = "issued" =>
    /\ xhrs["media"].issued
    /\ xhrs["init"].issued <=> (segment.map.set /\ ~segment.map.bytes)
    /\ \A r \in {"init", "media"} :
         LET br == IF r = "init" THEN segment.map.byterange ELSE segment.byterange
         IN xhrs[r].issued =>
              IF br.set
              THEN /\ xhrs[r].headers.hasRange
                   /\ \E last \in br.offset..(br.offset + br.length) :
                        /\ last - br.offset + 1 = br.length
                        /\ xhrs[r].headers.Range
                             = "bytes=" \o ToString(br.offset) \o "-" \o ToString(last)
              ELSE ~xhrs[r].headers.hasRange

\* C27 witness: offset 500 and length 1000 gave bytes=500-1499, and the
\* init segment without byte-range was requested without Range header
C27_Witness ==
  /\ pc = "issued"
  /\ segment.byterange = [set |-> TRUE, offset |-> 500, length |-> 1000]
  /\ xhrs["media"].headers = [hasRange |-> TRUE, Range |-> "bytes=500-1499"]
  /\ xhrs["init"].issued /\ ~xhrs["init"].headers.hasRange

\* C28: every call of the dispatcher, for a progress event or the final one,
\* starts at the cursor, which is the number of bytes the calls before it
\* consumed, so a byte that one call consumed is never inside the range of a
\* later call; this also for a descriptor whose cursor field was never set.
C28_DeltaOnly ==
  ~segment.key =>
    \A j \in 1..Len(dispatched) :
      /\ dispatched[j].from = SumUsed(dispatched, j - 1)
      /\ \A i \in 1..(j - 1) :
           dispatched[i].from + dispatched[i].used <= dispatched[j].from

\* C29: a call of the dispatcher for a segment with an init segment calls
\* the parser with the state kept on the descriptor and with end-of-segment
\* true exactly when isPartial is false, stores the state the parser
\* returned on the descriptor, calls the data callback exactly when the
\* parser returned output, and reports the count the parser returned, which
\* is at most the length supplied; a call for a segment without init
\* segment queues the bytes for the transmuxer, consults no parser and
\* reports the full length supplied.
C29_ConsumedCount ==
  [][Len(dispatched') = Len(dispatched) + 1 =>
       LET d == dispatched'[Len(dispatched')]
       IN IF segment.map
          THEN /\ d.route = "mp4"
               /\ lastParse'.called
               /\ lastParse'.priorBoxes = segment.boxes
               /\ lastParse'.isEndOfSegment = ~d.isPartial
               /\ segment'.boxes = lastParse'.boxes
               /\ lastParse'.dataFn = lastParse'.out
               /\ d.used = lastParse'.numUsedBytes
               /\ d.used <= d.to - d.from
               /\ transmuxQ' = transmuxQ
          ELSE /\ d.route = "ts"
               /\ d.used = d.to - d.from
               /\ Len(transmuxQ') = Len(transmuxQ) + 1
               /\ lastParse' = lastParse /\ segment'.boxes = segment.boxes]_vars

\* C29 witness: the parser was given two bytes in a partial call, consumed
\* one of them and returned output, which went to the data callback
C29_Witness ==
  /\ segment.map /\ Len(dispatched) = 1
  /\ dispatched[1].isPartial /\ dispatched[1].to - dispatched[1].from = 2
  /\ dispatched[1].used = 1
  /\ lastParse.called /\ ~lastParse.isEndOfSegment
  /\ lastParse.out /\ lastParse.dataFn /\ lastParse.numUsedBytes = 1
  /\ segment.boxes = lastParse.boxes

\* C30: in the box scan, a box of declared size 0 is counted as consumed,
\* up to the end of the data, only by the final call: a partial call stops
\* before that box, so that the cursor never passes its start, and the
\* final call, which sees the whole body, consumes all of it.
C30_ZeroSizeBoxAtEndOnly ==
  (segment.body.zero > 0 /\ segment.lastReachedChar.kind = "number") =>
    \A i \in 1..Len(dispatched) :
      IF dispatched[i].isPartial
      THEN dispatched[i].from + dispatched[i].used <= ZeroStart(segment.body)
      ELSE dispatched[i].from + dispatched[i].used = BodyLength(segment.body)

\* C31: the first-byte timestamp is recorded once: a progress event that
\* reports received bytes sets it if it is not there; once it is there no
\* step removes it, neither a later progress event nor the response of the
\* media request.
C31_FirstBytesOnce ==
  /\ [][segment.stats.firstBytesReceivedAt
          => segment'.stats.firstBytesReceivedAt]_vars
  /\ [][(progressCalls' = progressCalls + 1 /\ xhrs'["media"].loaded > 0)
          => segment'.stats.firstBytesReceivedAt]_vars

\* every request of the invocation has called back and none left an error
AllSucceeded == AllTerminal /\ Len(errors) = 0 /\ count = Len(activeXhrs)

\* C32: a call of the abort handle after every request of the segment has
\* completed successfully invokes no callback and reports nothing: the
\* count, the accumulated errors, the descriptor, the worker channel and
\* the calls of doneFn stay as they are and no request changes its outcome;
\* doneFn is never called with an error for such a segment; and the
\* worker's reply, whether it comes before or after the call, is parsed, in
\* one call of the dispatcher with isPartial = false.
C32_AbortAfterSuccess ==
  /\ [][(AllSucceeded /\ abortCalls' = abortCalls + 1) =>
          /\ count' = count /\ errors' = errors /\ segment' = segment
          /\ decrypter' = decrypter /\ doneCalls' = doneCalls
          /\ handoffs' = handoffs /\ dispatched' = dispatched
          /\ transmuxQ' = transmuxQ
          /\ \A r \in Reqs : Outcome(xhrs'[r]) =
                               [Outcome(xhrs[r]) EXCEPT !.aborted = xhrs'[r].aborted]]_vars
  /\ [](AllSucceeded => ErrorReports = {})
  /\ [][(AllSucceeded /\ RequestId \in decrypter.listeners
                     /\ RequestId \notin decrypter'.listeners) =>
          /\ Len(dispatched') = Len(dispatched) + 1
          /\ ~dispatched'[Len(dispatched')].isPartial
          /\ ErrorReports' = {}]_vars

\* C32 witness: the abort handle was called while the reply of the worker
\* was outstanding, with no request in flight, and the reply was parsed
\* afterwards
C32_Witness ==
  /\ AllSucceeded /\ segment.key
  /\ abortCalls = 1 /\ handleAborted = {}
  /\ \A r \in Issued : xhrs[r].aborted /\ xhrs[r].result = "ok"
  /\ RequestId \notin decrypter.listeners /\ segment.decryptedFor = RequestId
  /\ Cardinality(FinalDispatches) = 1 /\ handoffs = <<"decrypt">>

\* C33: the hand-off has not fired while a request of the segment is still
\* in flight, and it has fired, once, when every request has called back,
\* also if the transport ran callbacks inside the calls that issued the
\* requests.
C33_HandOffAgainstTotal ==
  pc = "running" =>
    /\ Len(handoffs) > 0 => \A r \in Issued : xhrs[r].state = "done"
    /\ (\A r \in Issued : xhrs[r].state = "done") => Len(handoffs) = 1

\* the complete boxes at the head of the bytes supplied: the offset behind
\* the last box that fits, reading each declared length from the supplied
\* bytes themselves; a box of declared size 0 extends to the end of the data
\* if the data reaches the end of the file, and is not complete otherwise
RECURSIVE CompletePrefix(_, _, _)
CompletePrefix(bytes, reachesEndOfFile, offset) ==
  LET remaining == ByteLength(bytes) - offset
      declared == Uint32At(bytes.body, bytes.from + offset)
      length == IF declared = 0 THEN remaining ELSE declared
  IN IF remaining < BoxHeader THEN offset
     ELSE IF declared = 0 /\ ~reachesEndOfFile THEN offset
     ELSE IF length > remaining THEN offset
     ELSE CompletePrefix(bytes, reachesEndOfFile, offset + length)

\* C34: completeMp4BoxesOffset returns, for every array of bytes, an offset
\* between 0 and the length of the array, which is the sum of the declared
\* lengths of the boxes at the head of the array that fit completely in it:
\* the scan stops at the first box that is longer than the bytes left, or
\* when fewer than 8 bytes are left.
C34_CompleteBoxPrefix ==
  lastParse.called =>
    /\ 0 <= lastParse.numUsedBytes
    /\ lastParse.numUsedBytes <= ByteLength(segment.bytes)
    /\ lastParse.numUsedBytes =
         CompletePrefix(segment.bytes, segment.reachesEndOfFile, 0)

============================================================================
